---- MODULE Spec2Model ----
(***************************************************************************)
(* Model of the daily wish bot (src/main.py): the per-day index selection  *)
(* (_stable_daily_index) and the DM-disabled state tracking of on_ready    *)
(* (load_dm_disabled, the member loop, save_dm_disabled); and of the text  *)
(* generation with retries of src/daily_wisher.py (generate_with_retry);   *)
(* and of the command lines of both scripts (load_config, --dry-run,       *)
(* --test); and of the sticker and emoji picks, the text sanitizers, the   *)
(* channel announcement, the notification of the newly blocked members and *)
(* the special days of a date (fetch_special_days_for_ist_date).           *)
(***************************************************************************)
EXTENDS Integers, Sequences, FiniteSets, TLC

VARIABLES
    \* ---- daily index selection (one Python process after another) ----
    proc,        \* number of the running Python process (0: none started)
    str_hash,    \* hash() of the running process, per ISO date string
    calls,       \* history: the calls of _stable_daily_index made so far
    \* ---- on_ready run over the persisted DM-disabled state ----
    dir_exists,  \* DATA_DIR exists
    file,        \* content of DM_DISABLED_PATH
    run,         \* number of the current run of on_ready (0: none started)
    pc,          \* position of on_ready
    dm_disabled_known,
    dm_disabled_updated,
    newly_dm_disabled_to_mention,
    fetch_rest,  \* members guild.fetch_members has still to yield
    cache_rest,  \* members of guild.members still to yield (fallback)
    phase,       \* iter_human_members: "fetch" or "cache" or "done"
    attempts,    \* history: per member id, the outcomes of its DM attempts
    load_result, \* history: outcome of load_dm_disabled in this run
    save_result, \* history: outcome of save_dm_disabled in this run
    n_loads,     \* history: calls of load_dm_disabled in this run
    n_saves,     \* history: calls of save_dm_disabled in this run
    sleeps,      \* history: per member id, the asyncio.sleep after each attempt
    notify_result, \* history: what became of the newly-blocked notification
    exit_path,   \* history: how on_ready ended in this run
    client_open, \* the Discord connection of the running client is open
    \* ---- generate_with_retry (src/daily_wisher.py) ----
    retry_pc,    \* position of generate_with_retry
    retry_i,     \* the loop variable i of "for i in range(3)"
    retry_fallback, \* the argument "fallback"
    responses,   \* history: what query_gemini_raw returned, call by call
    retry_result, \* the value generate_with_retry returned, and by which return
    retry_slept, \* history: seconds slept between the calls
    \* ---- one execution of a script from the command line ----
    program,     \* the script being executed ("none": not started)
    env,         \* os.environ after load_dotenv(), per variable name
    args,        \* the parsed command line
    main_pc,     \* position of the script
    cfg,         \* what load_config() returned or raised
    main_date,   \* date_ist of __main__: the date parsed from --date
    exit_code,   \* exit status of the process (-1: still running)
    external_calls, \* history: the kinds of external calls made so far
    \* ---- sticker and emoji selection at the call sites ----
    selection,   \* the selection recorded: its site, inputs and outcome
    \* ---- the channel announcement of on_ready ----
    announce_site, \* the program whose on_ready posts the announcement
    has_sticker, \* "sticker is not None": a sticker was resolved for the announcement
    announce_fetch, \* history: what fetch_channel did
    announce_sends, \* history: the channel.send calls of the announcement
    \* ---- the newly-blocked notification of on_ready ----
    notify_pc,   \* position in the notification block of on_ready
    notify_ids,  \* the ids behind newly_dm_disabled_to_mention, as digit strings
    notify_sends, \* history: the texts passed to channel.send
    \* ---- text sanitization ----
    text_call,   \* the last sanitizer call: function, arguments, result
    \* ---- fetch_special_days_for_ist_date ----
    cal_pc,      \* position of the function
    cal_date,    \* the argument date_ist
    cal_left,    \* calendars of config.google_calendar_ids still to query
    cal_items,   \* items of the current calendar still to look at
    cal_found,   \* the local "found"
    cal_seen,    \* the local "seen"
    offered,     \* history: the items looked at so far
    queried      \* history: the outcome of requests.get, per calendar queried

select_vars == <<proc, str_hash, calls>>
run_vars == <<dir_exists, file, run, pc, dm_disabled_known, dm_disabled_updated,
              newly_dm_disabled_to_mention, fetch_rest, cache_rest, phase,
              attempts, load_result, save_result, n_loads, n_saves, sleeps,
              notify_result, exit_path, client_open>>
retry_vars == <<retry_pc, retry_i, retry_fallback, responses, retry_result, retry_slept>>
cli_vars == <<program, env, args, main_pc, cfg, main_date, exit_code, external_calls>>
pick_vars == <<selection>>
announce_vars == <<announce_site, has_sticker, announce_fetch, announce_sends>>
notify_vars == <<notify_pc, notify_ids, notify_sends>>
text_vars == <<text_call>>
cal_vars == <<cal_pc, cal_date, cal_left, cal_items, cal_found, cal_seen, offered, queried>>
aux_vars == <<pick_vars, announce_vars, notify_vars, text_vars, cal_vars>>
vars == <<select_vars, run_vars, retry_vars, cli_vars, aux_vars>>

\* ------------------------------------------------------------------------
\* Bounds of the model
\* ------------------------------------------------------------------------
MaxCount == 3     \* candidate counts 0..MaxCount
MaxCalls == 2     \* recorded calls of _stable_daily_index
MaxProcs == 2     \* Python processes started
MaxMember == 2    \* human member ids 1..MaxMember
MaxRuns == 2      \* runs of on_ready
MaxDeviations == 2 \* environment variables that differ from a complete setup

Max(a, b) == IF a >= b THEN a ELSE b

\* ------------------------------------------------------------------------
\* Daily index selection
\* ------------------------------------------------------------------------

\* datetime.date values (year, month, day)
Dates == { [year |-> 2026, month |-> 1, day |-> 1],
           [year |-> 2025, month |-> 12, day |-> 31] }

DigitChar == <<"0", "1", "2", "3", "4", "5", "6", "7", "8", "9">>

\* the decimal digits of n, zero-padded to width w, as a sequence of characters
RECURSIVE ZeroPad(_, _)
ZeroPad(n, w) ==
    IF w = 0 THEN <<>>
    ELSE Append(ZeroPad(n \div 10, w - 1), DigitChar[(n % 10) + 1])

\* date.isoformat(): "YYYY-MM-DD"
isoformat(d) ==
    ZeroPad(d.year, 4) \o <<"-">> \o ZeroPad(d.month, 2) \o <<"-">> \o ZeroPad(d.day, 2)

IsoStrings == { isoformat(d) : d \in Dates }

\* 0x7FFFFFFF
Mask31 == 2147483647

\* A value of Python's hash(str) is a signed 64-bit integer hi * 2^31 + lo with
\* 0 <= lo <= 0x7FFFFFFF.  It is keyed by the interpreter's per-process hash
\* secret (PYTHONHASHSEED, random unless the environment fixes it), so for one
\* string it is one value within a process and any value across processes.
HashValues == [hi : {-1, 0}, lo : {0, 4, Mask31}]

\* h & 0x7FFFFFFF on Python's two's-complement integers: the low 31 bits
BitAndMask31(h) == h.lo

\* Python's a % b: ZeroDivisionError when b = 0
PyMod(a, b) ==
    IF b = 0 THEN [raised |-> TRUE, value |-> 0]
    ELSE [raised |-> FALSE, value |-> a % b]

\* variant: the modulo taken by the count itself
stable_daily_index_mod_count(date_ist, count) ==
    PyMod(BitAndMask31(str_hash[isoformat(date_ist)]), count)

\* variant: the modulo taken by one more than the count
stable_daily_index_off_by_one(date_ist, count) ==
    PyMod(BitAndMask31(str_hash[isoformat(date_ist)]), Max(1, count) + 1)

\* (hash(date_ist.isoformat()) & 0x7FFFFFFF) % max(1, count)
_stable_daily_index(date_ist, count) ==
    PyMod(BitAndMask31(str_hash[isoformat(date_ist)]), Max(1, count))

\* the interpreter starts: the hash secret of the new process is drawn
StartProcess ==
    /\ proc < MaxProcs
    /\ proc' = proc + 1
    /\ str_hash' \in [IsoStrings -> HashValues]
    /\ UNCHANGED <<calls, run_vars, retry_vars, cli_vars, aux_vars>>

\* the running process calls _stable_daily_index(date_ist, count)
CallStableDailyIndex ==
    /\ proc > 0
    /\ Len(calls) < MaxCalls
    /\ \E d \in Dates, n \in 0..MaxCount :
         LET r == _stable_daily_index(d, n) IN
         calls' = Append(calls, [proc |-> proc, date |-> d, count |-> n,
                                 raised |-> r.raised, value |-> r.value])
    /\ UNCHANGED <<proc, str_hash, run_vars, retry_vars, cli_vars, aux_vars>>

\* ------------------------------------------------------------------------
\* The persisted state file (DATA_DIR/dm_disabled.json) and its JSON content
\* ------------------------------------------------------------------------

\* JSON values that can stand in the "user_ids" list, as json.load returns them
JInt(n) == [t |-> "int", n |-> n, s |-> <<>>]
\* a float with a fractional part, h/2 for an odd h (3 is 1.5, -3 is -1.5)
JFloat(h) == [t |-> "float", n |-> h, s |-> <<>>]
JStr(chars) == [t |-> "str", n |-> 0, s |-> chars]
JNull == [t |-> "null", n |-> 0, s |-> <<>>]

IsDigit(c) == \E i \in 1..10 : DigitChar[i] = c
DigitVal(c) == (CHOOSE i \in 1..10 : DigitChar[i] = c) - 1

RECURSIVE DigitsValue(_)
DigitsValue(chars) ==
    IF chars = <<>> THEN 0
    ELSE 10 * DigitsValue(SubSeq(chars, 1, Len(chars) - 1)) + DigitVal(chars[Len(chars)])

RECURSIVE StripSpaces(_)
StripSpaces(chars) ==
    IF chars = <<>> THEN chars
    ELSE IF Head(chars) = " " THEN StripSpaces(Tail(chars))
    ELSE IF chars[Len(chars)] = " " THEN StripSpaces(SubSeq(chars, 1, Len(chars) - 1))
    ELSE chars

\* int(str): surrounding whitespace is dropped, an optional sign, then digits
PyIntOfStr(chars) ==
    LET t == StripSpaces(chars)
        neg == t # <<>> /\ Head(t) = "-"
        body == IF t # <<>> /\ Head(t) \in {"-", "+"} THEN Tail(t) ELSE t
    IN IF body # <<>> /\ \A i \in 1..Len(body) : IsDigit(body[i])
       THEN [exc |-> "none", value |-> IF neg THEN 0 - DigitsValue(body) ELSE DigitsValue(body)]
       ELSE [exc |-> "ValueError", value |-> 0]

\* int(x) for a value json.load returned
py_int(x) ==
    CASE x.t = "int" -> [exc |-> "none", value |-> x.n]
      [] x.t = "float" -> \* truncation towards zero
           [exc |-> "none",
            value |-> IF x.n >= 0 THEN x.n \div 2 ELSE 0 - ((0 - x.n) \div 2)]
      [] x.t = "str" -> PyIntOfStr(x.s)
      [] OTHER -> [exc |-> "TypeError", value |-> 0]

\* A state file.  kind: "missing" (no such path), "empty" (zero bytes),
\* "invalid" (not JSON, e.g. a truncated write), "array" (a JSON document that
\* is not an object), "object".  For an object, ids_kind tells what "user_ids"
\* holds: "absent", "null", "number", "string" (ids: its characters) or "list"
\* (ids: its elements); stamp stands for "updated_at_utc" (0: none).
FileOf(kind, ids_kind, ids, stamp) ==
    [kind |-> kind, ids_kind |-> ids_kind, ids |-> ids, stamp |-> stamp]

MissingFile == FileOf("missing", "absent", <<>>, 0)
EmptyFile == FileOf("empty", "absent", <<>>, 0)
InvalidFile == FileOf("invalid", "absent", <<>>, 0)

\* the ascending sequence of the elements of a finite set of integers
RECURSIVE sorted(_)
sorted(S) ==
    IF S = {} THEN <<>>
    ELSE LET m == CHOOSE x \in S : \A y \in S : x <= y
         IN <<m>> \o sorted(S \ {m})

\* the values a Python iteration over data.get("user_ids", []) yields
UserIdsItems(f) ==
    CASE f.ids_kind = "absent" -> [exc |-> "none", items |-> <<>>]
      [] f.ids_kind = "list" -> [exc |-> "none", items |-> f.ids]
      [] f.ids_kind = "string" ->
           [exc |-> "none", items |-> [i \in 1..Len(f.ids) |-> JStr(<<f.ids[i]>>)]]
      [] OTHER -> [exc |-> "TypeError", items |-> <<>>]

\* the body of the try block of load_dm_disabled
load_dm_disabled_try(f) ==
    IF f.kind = "missing" THEN [exc |-> "none", value |-> {}]
    ELSE IF f.kind \in {"empty", "invalid"} THEN [exc |-> "JSONDecodeError", value |-> {}]
    ELSE IF f.kind # "object" THEN [exc |-> "AttributeError", value |-> {}]
    ELSE LET it == UserIdsItems(f)
             conv == [i \in 1..Len(it.items) |-> py_int(it.items[i])]
             bad == { i \in 1..Len(it.items) : conv[i].exc # "none" }
         IN IF it.exc # "none" THEN [exc |-> it.exc, value |-> {}]
            ELSE IF bad # {}
            THEN [exc |-> conv[CHOOSE i \in bad : \A j \in bad : i <= j].exc, value |-> {}]
            ELSE [exc |-> "none", value |-> { conv[i].value : i \in 1..Len(it.items) }]

\* variant: "except (json.JSONDecodeError, ValueError)" in place of Exception
load_dm_disabled_narrow_except(f) ==
    LET r == load_dm_disabled_try(f)
    IN IF r.exc \in {"JSONDecodeError", "ValueError"} THEN [exc |-> "none", value |-> {}] ELSE r

\* load_dm_disabled(): "except Exception: return set()"
load_dm_disabled(f) ==
    LET r == load_dm_disabled_try(f)
    IN IF r.exc # "none" THEN [exc |-> "none", value |-> {}] ELSE r

\* what the I/O of one save_dm_disabled call can do
SaveOutcomes == {"ok", "makedirs_error", "open_error", "write_error"}

\* variant: the ids already in the file are kept beside the saved ones
save_dm_disabled_merges(d, f, user_ids, io, stamp) ==
    [dir_exists |-> TRUE,
     file |-> FileOf("object", "list",
                     [i \in 1..Len(sorted(user_ids \cup load_dm_disabled(f).value)) |->
                        JInt(sorted(user_ids \cup load_dm_disabled(f).value)[i])], stamp),
     raised |-> io # "ok"]

\* save_dm_disabled(user_ids) on directory state d and file f; io is what the
\* file system does.  The result is the new directory state and file, and
\* whether the call raised.
save_dm_disabled(d, f, user_ids, io, stamp) ==
    IF io = "makedirs_error" THEN [dir_exists |-> d, file |-> f, raised |-> TRUE]
    ELSE IF io = "open_error" THEN [dir_exists |-> TRUE, file |-> f, raised |-> TRUE]
    ELSE IF io = "write_error"
    THEN \* open(..., "w") truncated the file, json.dump stopped part-way
         [dir_exists |-> TRUE, file |-> InvalidFile, raised |-> TRUE]
    ELSE LET ids == sorted(user_ids)
         IN [dir_exists |-> TRUE,
             file |-> FileOf("object", "list", [i \in 1..Len(ids) |-> JInt(ids[i])], stamp),
             raised |-> FALSE]

\* ------------------------------------------------------------------------
\* on_ready: one run over the guild's members
\* ------------------------------------------------------------------------

HumanIds == 1..MaxMember
\* one bot account in the guild (member.bot)
BotId == MaxMember + 1
GuildIds == HumanIds \cup {BotId}
is_bot(m) == m = BotId

\* member.mention
Mention(m) == <<"<@", m, ">">>

\* the ways on_ready can end: the returns at lines 1012, 1033 and 1169, an
\* exception leaving the try block, and the end of the function
ExitPaths == {"no_special_day", "guild_not_found", "exception", "save_raised",
              "channel_not_found", "completed"}

\* variant: client.close() only at the end of the function body
closes_client_at_end_only(path) == path = "completed"

\* "finally: await client.close()" (lines 1182-1183) encloses the whole body
closes_client(path) == path \in ExitPaths

\* on_ready ends by the given path
ExitOnReady(path) ==
    /\ pc' = "closed"
    /\ exit_path' = path
    /\ client_open' = ~closes_client(path)

\* lines 1003-1125: configuration, special days, texts, guild, sticker and the
\* channel announcement.  Either the run returns early (no special day, guild
\* not found, an exception), and the finally clause closes the client, or it
\* reaches the DM phase.  Every run is a new process and a new member listing.
OnReadyBegin ==
    /\ pc \in {"idle", "closed"}
    /\ run < MaxRuns
    /\ run' = run + 1
    /\ \/ \E path \in {"no_special_day", "guild_not_found", "exception"} :
            ExitOnReady(path)
       \/ pc' = "load" /\ exit_path' = "none" /\ client_open' = TRUE
    /\ n_loads' = 0
    /\ n_saves' = 0
    /\ sleeps' = [m \in HumanIds |-> <<>>]
    /\ notify_result' = "none"
    /\ dm_disabled_known' = {}
    /\ dm_disabled_updated' = {}
    /\ newly_dm_disabled_to_mention' = <<>>
    /\ fetch_rest' = <<>>
    /\ cache_rest' = <<>>
    /\ phase' = "none"
    /\ attempts' = [m \in HumanIds |-> <<>>]
    /\ load_result' = "none"
    /\ save_result' = "none"
    /\ UNCHANGED <<dir_exists, file, select_vars, retry_vars, cli_vars, aux_vars>>

\* lines 1127-1129, and the first step of iter_human_members
LoadState ==
    /\ pc = "load"
    /\ LET r == load_dm_disabled(file) IN
         IF r.exc # "none"
         THEN \* the exception leaves on_ready through the finally clause
              /\ ExitOnReady("exception")
              /\ load_result' = "raised"
              /\ UNCHANGED <<dm_disabled_known, dm_disabled_updated, fetch_rest, phase>>
         ELSE /\ pc' = "loop"
              /\ load_result' = "returned"
              /\ UNCHANGED <<exit_path, client_open>>
              /\ dm_disabled_known' = r.value
              /\ dm_disabled_updated' = r.value
              /\ fetch_rest' = sorted(GuildIds)
              /\ phase' = "fetch"
    /\ newly_dm_disabled_to_mention' = <<>>
    /\ n_loads' = n_loads + 1
    /\ UNCHANGED <<dir_exists, file, run, cache_rest, attempts, save_result, n_saves,
                   sleeps, notify_result, select_vars, retry_vars, cli_vars, aux_vars>>

\* the history variables that only LoadState, the attempts, SaveState and the
\* end of on_ready change
end_vars == <<n_loads, n_saves, sleeps, notify_result, exit_path, client_open>>

\* iter_human_members: the member the generator is about to hand out
NextMember ==
    IF phase = "fetch" THEN Head(fetch_rest) ELSE Head(cache_rest)

HasNextMember ==
    \/ phase = "fetch" /\ fetch_rest # <<>>
    \/ phase = "cache" /\ cache_rest # <<>>

\* the generator moves past the member it handed out
Advance ==
    /\ fetch_rest' = IF phase = "fetch" THEN Tail(fetch_rest) ELSE fetch_rest
    /\ cache_rest' = IF phase = "cache" THEN Tail(cache_rest) ELSE cache_rest
    /\ UNCHANGED phase

\* "if not member.bot" is false: the member is not yielded
SkipBot ==
    /\ pc = "loop" /\ HasNextMember /\ is_bot(NextMember)
    /\ Advance
    /\ UNCHANGED <<dir_exists, file, run, pc, dm_disabled_known, dm_disabled_updated,
                   newly_dm_disabled_to_mention, attempts, load_result, save_result,
                   end_vars, select_vars, retry_vars, cli_vars, aux_vars>>

\* guild.fetch_members raises (before, between or after the members it
\* yields): fall back to guild.members, the cached members in cache order
FetchMembersFails ==
    /\ pc = "loop" /\ phase = "fetch"
    /\ phase' = "cache"
    /\ \E cached \in SUBSET GuildIds : cache_rest' = sorted(cached)
    /\ UNCHANGED <<fetch_rest, dir_exists, file, run, pc, dm_disabled_known,
                   dm_disabled_updated, newly_dm_disabled_to_mention, attempts,
                   load_result, save_result, end_vars, select_vars, retry_vars, cli_vars, aux_vars>>

\* the member iteration is exhausted: on to save_dm_disabled
MembersExhausted ==
    /\ pc = "loop" /\ phase \in {"fetch", "cache"} /\ ~HasNextMember
    /\ phase' = "done"
    /\ pc' = "save"
    /\ UNCHANGED <<fetch_rest, cache_rest, dir_exists, file, run, dm_disabled_known,
                   dm_disabled_updated, newly_dm_disabled_to_mention, attempts,
                   load_result, save_result, end_vars, select_vars, retry_vars, cli_vars, aux_vars>>

\* variant: a success leaves the set as it is
record_success_keeps(updated, m) == updated

\* the try branch: member.send returned
record_success(updated, m) ==
    IF m \in updated THEN updated \ {m} ELSE updated

\* variant: the test made against the updated set
newly_mentions_checks_updated(known, updated, newly, m) ==
    IF m \notin updated THEN Append(newly, Mention(m)) ELSE newly

\* variant: every Forbidden failure is reported
newly_mentions_always(known, updated, newly, m) ==
    Append(newly, Mention(m))

\* except discord.Forbidden: the mention list after the branch
newly_mentions(known, updated, newly, m) ==
    IF m \notin known THEN Append(newly, Mention(m)) ELSE newly

\* except discord.Forbidden: the updated set after the branch
record_failure(updated, m) == updated \cup {m}

\* asyncio.sleep durations, in tenths of a second
SleepAfterSuccess == 6
SleepAfterForbidden == 2
SleepAfterError == 2

\* variant: no pause in the generic except branch
sleep_after_skips_error(outcome) ==
    IF outcome = "ok" THEN SleepAfterSuccess
    ELSE IF outcome = "forbidden" THEN SleepAfterForbidden
    ELSE 0

\* the asyncio.sleep that ends each branch of the loop body
sleep_after(outcome) ==
    IF outcome = "ok" THEN SleepAfterSuccess
    ELSE IF outcome = "forbidden" THEN SleepAfterForbidden
    ELSE SleepAfterError

\* variant: an exception other than Forbidden leaves the loop and on_ready
after_attempt_error_escapes(outcome) ==
    IF outcome = "error" THEN "closed" ELSE "loop"

\* variant: the state is saved as soon as a member could not be reached
after_attempt_saves_on_forbidden(outcome) ==
    IF outcome = "forbidden" THEN "save" ELSE "loop"

\* where on_ready stands after the loop body: every branch (try, except
\* discord.Forbidden, except Exception) falls through to the next iteration
after_attempt(outcome) == "loop"

\* variant: the generic except branch records the member as blocked
record_other_error_adds(updated, m) == updated \cup {m}

\* except Exception: the updated set after the branch (only a print)
record_other_error(updated, m) == updated

Attempted(m, outcome) ==
    /\ attempts' = [attempts EXCEPT ![m] = Append(@, outcome)]
    /\ sleeps' = [sleeps EXCEPT ![m] = Append(@, sleep_after(outcome))]
    /\ pc' = after_attempt(outcome)
    /\ Advance
    /\ UNCHANGED <<dir_exists, file, run, dm_disabled_known, load_result,
                   save_result, n_loads, n_saves, notify_result, exit_path,
                   client_open, select_vars, retry_vars, cli_vars, aux_vars>>

\* lines 1132-1144: the DM was sent
DmSent ==
    /\ pc = "loop" /\ HasNextMember /\ ~is_bot(NextMember)
    /\ dm_disabled_updated' = record_success(dm_disabled_updated, NextMember)
    /\ UNCHANGED newly_dm_disabled_to_mention
    /\ Attempted(NextMember, "ok")

\* lines 1145-1150: member.send raised discord.Forbidden
DmForbidden ==
    /\ pc = "loop" /\ HasNextMember /\ ~is_bot(NextMember)
    /\ newly_dm_disabled_to_mention' =
         newly_mentions(dm_disabled_known, dm_disabled_updated,
                        newly_dm_disabled_to_mention, NextMember)
    /\ dm_disabled_updated' = record_failure(dm_disabled_updated, NextMember)
    /\ Attempted(NextMember, "forbidden")

\* lines 1151-1153: personalize_dm_message or member.send raised another Exception
DmError ==
    /\ pc = "loop" /\ HasNextMember /\ ~is_bot(NextMember)
    /\ dm_disabled_updated' = record_other_error(dm_disabled_updated, NextMember)
    /\ UNCHANGED newly_dm_disabled_to_mention
    /\ Attempted(NextMember, "error")

\* line 1155: save_dm_disabled(dm_disabled_updated); when it raises, the
\* exception leaves on_ready through the finally clause
SaveState ==
    /\ pc = "save"
    /\ \E io \in SaveOutcomes :
         LET r == save_dm_disabled(dir_exists, file, dm_disabled_updated, io, run) IN
         /\ dir_exists' = r.dir_exists
         /\ file' = r.file
         /\ save_result' = IF r.raised THEN "raised" ELSE "ok"
         /\ IF r.raised
            THEN ExitOnReady("save_raised")
            ELSE pc' = "notify" /\ UNCHANGED <<exit_path, client_open>>
    /\ n_saves' = n_saves + 1
    /\ UNCHANGED <<run, dm_disabled_known, dm_disabled_updated,
                   newly_dm_disabled_to_mention, fetch_rest, cache_rest, phase,
                   attempts, load_result, n_loads, sleeps, notify_result, select_vars, retry_vars, cli_vars, aux_vars>>

\* lines 1157-1183: the notification of the newly blocked members, then
\* client.close().  Nothing is sent when nobody is newly blocked; otherwise
\* client.fetch_channel can fail (return) and channel.send can raise.
NotifyAndClose ==
    /\ pc = "notify"
    /\ IF newly_dm_disabled_to_mention = <<>>
       THEN notify_result' = "skipped" /\ ExitOnReady("completed")
       ELSE \/ notify_result' = "channel_not_found" /\ ExitOnReady("channel_not_found")
            \/ notify_result' = "sent" /\ ExitOnReady("completed")
            \/ notify_result' = "send_raised" /\ ExitOnReady("exception")
    /\ UNCHANGED <<dir_exists, file, run, dm_disabled_known, dm_disabled_updated,
                   newly_dm_disabled_to_mention, fetch_rest, cache_rest, phase,
                   attempts, load_result, save_result, n_loads, n_saves, sleeps,
                   select_vars, retry_vars, cli_vars, aux_vars>>

\* ------------------------------------------------------------------------
\* Initial states and specifications
\* ------------------------------------------------------------------------

\* what an element of a "user_ids" list found on disk can be
Elems == { JInt(1), JInt(2), JFloat(3), JStr(<<"2">>), JStr(<<"x">>), JNull }

\* the state files the first run can find
InitFiles ==
    { MissingFile, EmptyFile, InvalidFile,
      FileOf("array", "absent", <<>>, 0),
      FileOf("object", "absent", <<>>, 0),
      FileOf("object", "null", <<>>, 0),
      FileOf("object", "number", <<>>, 0),
      FileOf("object", "string", <<"1", "2">>, 0),
      FileOf("object", "string", <<"1", "x">>, 0) }
    \cup { FileOf("object", "list", ids, 0) :
             ids \in {<<>>} \cup { <<a>> : a \in Elems }
                            \cup { <<a, b>> : a \in Elems, b \in Elems } }

IdleRun ==
    /\ run = 0
    /\ pc = "idle"
    /\ dm_disabled_known = {}
    /\ dm_disabled_updated = {}
    /\ newly_dm_disabled_to_mention = <<>>
    /\ fetch_rest = <<>>
    /\ cache_rest = <<>>
    /\ phase = "none"
    /\ attempts = [m \in HumanIds |-> <<>>]
    /\ load_result = "none"
    /\ save_result = "none"
    /\ n_loads = 0
    /\ n_saves = 0
    /\ sleeps = [m \in HumanIds |-> <<>>]
    /\ notify_result = "none"
    /\ exit_path = "none"
    /\ client_open = FALSE

NoProcess ==
    /\ proc = 0
    /\ str_hash = [s \in IsoStrings |-> [hi |-> 0, lo |-> 0]]
    /\ calls = <<>>

\* ------------------------------------------------------------------------
\* generate_with_retry (src/daily_wisher.py, nested in on_ready)
\* ------------------------------------------------------------------------

\* range(3)
RetryLimit == 3
\* asyncio.sleep(5)
RetrySleep == 5

\* Texts are sequences of words.  "Gemini API Error":
GeminiErrorMarker == <<"Gemini", "API", "Error">>

\* what query_gemini_raw can return
GeminiTexts ==
    { <<"Good", "evening">>,
      <<>>,
      <<"Gemini", "Error", "API">>,
      GeminiErrorMarker,
      <<"Gemini", "API", "Error", "429">>,
      <<"Sorry", "Gemini", "API", "Error">> }

\* TIME_OF_DAY as get_time_of_day() detects it
TimesOfDay == {"Morning", "Noon", "Afternoon", "Evening", "Night"}

\* the fallback argument of the call at lines 482-492
FallbackText(time_of_day) == <<"Wishing", "you", "a", "lovely", time_of_day>>

\* variant: msg.startswith("Gemini API Error")
str_startswith(sub, msg) ==
    Len(msg) >= Len(sub) /\ SubSeq(msg, 1, Len(sub)) = sub

\* Python's "sub in msg" for strings
str_contains(sub, msg) ==
    \E k \in 0..(Len(msg) - Len(sub)) : SubSeq(msg, k + 1, k + Len(sub)) = sub

NoRetry ==
    /\ retry_pc = "idle"
    /\ retry_i = 0
    /\ retry_fallback = <<>>
    /\ responses = <<>>
    /\ retry_result = [via |-> "none", value |-> <<>>]
    /\ retry_slept = 0

\* on_ready calls generate_with_retry(prompt, fallback): the loop starts
GenerateBegin ==
    /\ retry_pc = "idle"
    /\ retry_pc' = "loop"
    /\ retry_i' = 0
    /\ \E time_of_day \in TimesOfDay : retry_fallback' = FallbackText(time_of_day)
    /\ UNCHANGED <<responses, retry_result, retry_slept, select_vars, run_vars, cli_vars, aux_vars>>

\* one iteration: query_gemini_raw returns msg; without the marker msg is
\* returned, with it the coroutine sleeps and goes to the next iteration
QueryGeminiReturns ==
    /\ retry_pc = "loop"
    /\ retry_i < RetryLimit
    /\ \E msg \in GeminiTexts :
         /\ responses' = Append(responses, msg)
         /\ IF ~str_contains(GeminiErrorMarker, msg)
            THEN /\ retry_result' = [via |-> "response", value |-> msg]
                 /\ retry_pc' = "returned"
                 /\ UNCHANGED <<retry_i, retry_slept>>
            ELSE /\ retry_slept' = retry_slept + RetrySleep
                 /\ retry_i' = retry_i + 1
                 /\ UNCHANGED <<retry_pc, retry_result>>
    /\ UNCHANGED <<retry_fallback, select_vars, run_vars, cli_vars, aux_vars>>

\* one iteration: the call of query_gemini_raw raises; nothing in
\* generate_with_retry catches it
QueryGeminiRaises ==
    /\ retry_pc = "loop"
    /\ retry_i < RetryLimit
    /\ retry_pc' = "raised"
    /\ UNCHANGED <<retry_i, retry_fallback, responses, retry_result, retry_slept,
                   select_vars, run_vars, cli_vars, aux_vars>>

\* range(3) is exhausted: "return fallback"
ReturnFallback ==
    /\ retry_pc = "loop"
    /\ retry_i >= RetryLimit
    /\ retry_result' = [via |-> "fallback", value |-> retry_fallback]
    /\ retry_pc' = "returned"
    /\ UNCHANGED <<retry_i, retry_fallback, responses, retry_slept, select_vars, run_vars, cli_vars, aux_vars>>

\* ------------------------------------------------------------------------
\* Configuration (src/main.py: _env, _env_int, _split_csv, load_config)
\* ------------------------------------------------------------------------

\* An optional string: None, or a str given by its characters
PyNone == [set |-> FALSE, s |-> <<>>]
PyStr(chars) == [set |-> TRUE, s |-> chars]

\* "a or b" on optional strings: None and "" are falsy
PyOr(a, b) == IF a.set /\ a.s # <<>> THEN a ELSE b

EnvNames ==
    { "DISCORD_TOKEN", "DISCORD_BOT_API_KEY", "DISCORD_GUILD_ID", "GUILD_ID",
      "DISCORD_FALLBACK_CHANNEL_ID", "CHANNEL_ID", "DISCORD_STICKER_ID",
      "DISCORD_STICKER_PICK_MODE", "GOOGLE_API_KEY", "GOOGLE_CALENDAR_API_KEY",
      "GOOGLE_CALENDER_API_KEY", "GOOGLE_CALENDAR_IDS" }

\* _env(name, default): an unset or blank variable gives the default
_env(e, name, default) ==
    IF ~e[name].set \/ StripSpaces(e[name].s) = <<>> THEN default ELSE e[name]

\* _env_int(*names): int() of the first variable that _env finds; ValueError
\* when int() rejects it or when no variable is found
_env_int(e, names) ==
    LET found == SelectSeq(names, LAMBDA n : _env(e, n, PyNone).set)
    IN IF found = <<>> THEN [exc |-> "ValueError", value |-> 0]
       ELSE PyIntOfStr(_env(e, found[1], PyNone).s)

\* str.split(",")
RECURSIVE SplitComma(_)
SplitComma(chars) ==
    IF \A i \in 1..Len(chars) : chars[i] # ","
    THEN <<chars>>
    ELSE LET k == CHOOSE i \in 1..Len(chars) :
                      chars[i] = "," /\ \A j \in 1..(i - 1) : chars[j] # ","
         IN <<SubSeq(chars, 1, k - 1)>> \o SplitComma(SubSeq(chars, k + 1, Len(chars)))

\* _split_csv(value): the stripped, non-empty parts
_split_csv(value) ==
    IF ~value.set \/ value.s = <<>> THEN <<>>
    ELSE LET parts == SplitComma(value.s)
             stripped == [i \in 1..Len(parts) |-> StripSpaces(parts[i])]
         IN SelectSeq(stripped, LAMBDA part : part # <<>>)

\* str.lower(), on the letters that occur in the pick modes of the model
PyLowerChar(c) ==
    CASE c = "A" -> "a"
      [] c = "D" -> "d"
      [] c = "I" -> "i"
      [] c = "L" -> "l"
      [] c = "Y" -> "y"
      [] OTHER -> c

PyLower(chars) == [i \in 1..Len(chars) |-> PyLowerChar(chars[i])]

ModeDaily == <<"d", "a", "i", "l", "y">>
ModeAi == <<"a", "i">>

\* variant: any pick mode is accepted
sticker_pick_mode_unchecked(mode) == TRUE

\* sticker_pick_mode in {"daily", "ai"}
sticker_pick_mode_known(mode) == mode \in {ModeDaily, ModeAi}

\* a Config, or the ValueError that load_config raised (error: the setting)
ConfigOf(exc, error, token, guild, channel, sticker, mode, key, calendars) ==
    [exc |-> exc, error |-> error, discord_token |-> token, guild_id |-> guild,
     fallback_channel_id |-> channel, sticker_id |-> sticker,
     sticker_pick_mode |-> mode, google_api_key |-> key,
     google_calendar_ids |-> calendars]

ConfigError(error) ==
    ConfigOf("ValueError", error, <<>>, 0, 0, [set |-> FALSE, n |-> 0], <<>>, <<>>, <<>>)

NoConfig ==
    ConfigOf("none", "not_loaded", <<>>, 0, 0, [set |-> FALSE, n |-> 0], <<>>, <<>>, <<>>)

\* load_config(): the checks in the order of the code
load_config(e) ==
    LET discord_token == PyOr(_env(e, "DISCORD_TOKEN", PyNone),
                              _env(e, "DISCORD_BOT_API_KEY", PyNone))
        guild_id == _env_int(e, <<"DISCORD_GUILD_ID", "GUILD_ID">>)
        fallback_channel_id == _env_int(e, <<"DISCORD_FALLBACK_CHANNEL_ID", "CHANNEL_ID">>)
        sticker_raw == _env(e, "DISCORD_STICKER_ID", PyNone)
        sticker_int == PyIntOfStr(sticker_raw.s)
        sticker_pick_mode ==
            PyLower(StripSpaces(PyOr(_env(e, "DISCORD_STICKER_PICK_MODE", PyStr(ModeDaily)),
                                     PyStr(ModeDaily)).s))
        google_api_key == PyOr(PyOr(_env(e, "GOOGLE_API_KEY", PyNone),
                                    _env(e, "GOOGLE_CALENDAR_API_KEY", PyNone)),
                               _env(e, "GOOGLE_CALENDER_API_KEY", PyNone))
        calendar_ids == _split_csv(_env(e, "GOOGLE_CALENDAR_IDS", PyNone))
    IN IF ~(discord_token.set /\ discord_token.s # <<>>)
         THEN ConfigError("DISCORD_TOKEN")
       ELSE IF guild_id.exc # "none" THEN ConfigError("DISCORD_GUILD_ID")
       ELSE IF fallback_channel_id.exc # "none" THEN ConfigError("DISCORD_FALLBACK_CHANNEL_ID")
       ELSE IF sticker_raw.set /\ sticker_raw.s # <<>> /\ sticker_int.exc # "none"
         THEN ConfigError("DISCORD_STICKER_ID")
       ELSE IF ~sticker_pick_mode_known(sticker_pick_mode)
         THEN ConfigError("DISCORD_STICKER_PICK_MODE")
       ELSE IF ~(google_api_key.set /\ google_api_key.s # <<>>)
         THEN ConfigError("GOOGLE_API_KEY")
       ELSE IF calendar_ids = <<>> THEN ConfigError("GOOGLE_CALENDAR_IDS")
       ELSE ConfigOf("none", "none", discord_token.s, guild_id.value,
                     fallback_channel_id.value,
                     IF sticker_raw.set /\ sticker_raw.s # <<>>
                     THEN [set |-> TRUE, n |-> sticker_int.value]
                     ELSE [set |-> FALSE, n |-> 0],
                     sticker_pick_mode, google_api_key.s, calendar_ids)

\* The environments of the model.  A complete setup, and what a variable may
\* hold instead: nothing, a blank, a usable value, an unusable value.
CompleteEnv ==
    [n \in EnvNames |->
        CASE n = "DISCORD_TOKEN" -> PyStr(<<"t">>)
          [] n = "DISCORD_GUILD_ID" -> PyStr(<<"4", "2">>)
          [] n = "DISCORD_FALLBACK_CHANNEL_ID" -> PyStr(<<"7">>)
          [] n = "GOOGLE_API_KEY" -> PyStr(<<"k">>)
          [] n = "GOOGLE_CALENDAR_IDS" -> PyStr(<<"a", ",", "b">>)
          [] OTHER -> PyNone]

EnvValues(n) ==
    CASE n \in {"DISCORD_TOKEN", "DISCORD_BOT_API_KEY", "GOOGLE_API_KEY",
                "GOOGLE_CALENDAR_API_KEY", "GOOGLE_CALENDER_API_KEY"} ->
           { PyNone, PyStr(<<" ">>), PyStr(<<"k">>) }
      [] n \in {"DISCORD_GUILD_ID", "GUILD_ID", "DISCORD_FALLBACK_CHANNEL_ID",
                "CHANNEL_ID", "DISCORD_STICKER_ID"} ->
           { PyNone, PyStr(<<" ">>), PyStr(<<" ", "7">>), PyStr(<<"4", ".", "2">>) }
      [] n = "DISCORD_STICKER_PICK_MODE" ->
           { PyNone, PyStr(<<" ", "A", "I", " ">>), PyStr(<<"D", "a", "i", "l", "y">>),
             PyStr(<<"r", "a", "n", "d", "o", "m">>) }
      [] n = "GOOGLE_CALENDAR_IDS" ->
           { PyNone, PyStr(<<",">>), PyStr(<<" ", "a", " ", ",", " ">>) }

\* the environments that differ from e in at most k variables
RECURSIVE Deviations(_, _)
Deviations(e, k) ==
    IF k = 0 THEN {e}
    ELSE LET less == Deviations(e, k - 1)
         IN less \cup UNION { { [f EXCEPT ![n] = v] : f \in less, v \in EnvValues(n) } :
                               n \in EnvNames }

Environments == Deviations(CompleteEnv, MaxDeviations)

\* ------------------------------------------------------------------------
\* The command lines (src/main.py __main__, src/daily_wisher.py)
\* ------------------------------------------------------------------------

DateOf(y, m, d) == [year |-> y, month |-> m, day |-> d]
\* date_ist is None
NoDate == DateOf(0, 0, 0)
\* datetime.date.min and datetime.date.max
DateMin == DateOf(1, 1, 1)
DateMax == DateOf(9999, 12, 31)

IsLeapYear(y) == (y % 4 = 0 /\ y % 100 # 0) \/ y % 400 = 0

DaysInMonth(y, m) ==
    IF m = 2 THEN (IF IsLeapYear(y) THEN 29 ELSE 28)
    ELSE IF m \in {4, 6, 9, 11} THEN 30 ELSE 31

\* datetime.date.fromisoformat on a "YYYY-MM-DD" candidate: ValueError unless
\* the shape is right and the fields name a day of the calendar
fromisoformat(chars) ==
    IF /\ Len(chars) = 10
       /\ chars[5] = "-" /\ chars[8] = "-"
       /\ \A i \in {1, 2, 3, 4, 6, 7, 9, 10} : IsDigit(chars[i])
    THEN LET y == DigitsValue(SubSeq(chars, 1, 4))
             m == DigitsValue(SubSeq(chars, 6, 7))
             d == DigitsValue(SubSeq(chars, 9, 10))
         IN IF y >= 1 /\ m \in 1..12 /\ d >= 1 /\ d <= DaysInMonth(y, m)
            THEN [exc |-> "none", value |-> DateOf(y, m, d)]
            ELSE [exc |-> "ValueError", value |-> NoDate]
    ELSE [exc |-> "ValueError", value |-> NoDate]

\* "date_ist - timedelta(days=1)" and "date_ist + timedelta(days=1)" raise
\* OverflowError at the ends of the calendar
date_window_overflows(d) == d = DateMin \/ d = DateMax

\* the values of --date
DateArgs ==
    { PyNone,
      PyStr(<<>>),
      PyStr(isoformat(DateOf(2026, 1, 1))),
      PyStr(isoformat(DateMin)),
      PyStr(isoformat(DateMax)),
      PyStr(isoformat(DateOf(2026, 2, 30))),
      PyStr(<<"0", "1", "/", "0", "1", "/", "2", "0", "2", "6">>) }

MainArgs == [dry_run : BOOLEAN, date : DateArgs, test : {FALSE}]
WisherArgs == [dry_run : {FALSE}, date : {PyNone}, test : BOOLEAN]

NoProgram ==
    /\ program = "none"
    /\ env = CompleteEnv
    /\ args = [dry_run |-> FALSE, date |-> PyNone, test |-> FALSE]
    /\ main_pc = "none"
    /\ cfg = NoConfig
    /\ main_date = NoDate
    /\ exit_code = -1
    /\ external_calls = {}

\* the process ends with the given status
Exit(code) ==
    /\ main_pc' = "exited"
    /\ exit_code' = code

\* python main.py [--dry-run] [--date D]: the module is imported (load_dotenv,
\* the client object is built, nothing is connected), the arguments are parsed
StartMain ==
    /\ program = "none"
    /\ program' = "main.py"
    /\ env' \in Environments
    /\ args' \in MainArgs
    /\ main_pc' = "load_config"
    /\ UNCHANGED <<cfg, main_date, exit_code, external_calls, select_vars, run_vars, retry_vars, aux_vars>>

\* variant: the client is run whatever the flag
after_config_ignores_dry_run(dry_run) == "client_run"

\* "if args.dry_run: ..." else "client.run(cfg.discord_token)"
after_config(dry_run) == IF dry_run THEN "dry_run" ELSE "client_run"

\* "try: cfg = load_config()  except Exception: ... raise SystemExit(2)"
MainLoadConfig ==
    /\ program = "main.py"
    /\ main_pc = "load_config"
    /\ cfg' = load_config(env)
    /\ IF cfg'.exc # "none"
       THEN Exit(2)
       ELSE main_pc' = after_config(args.dry_run) /\ UNCHANGED exit_code
    /\ UNCHANGED <<program, env, args, main_date, external_calls, select_vars, run_vars, retry_vars, aux_vars>>

\* --dry-run: "if args.date:" the date is parsed, SystemExit(2) when
\* fromisoformat raises
DryRunParseDate ==
    /\ program = "main.py"
    /\ main_pc = "dry_run"
    /\ IF args.date.set /\ args.date.s # <<>>
       THEN LET r == fromisoformat(args.date.s)
            IN IF r.exc # "none"
               THEN Exit(2) /\ UNCHANGED main_date
               ELSE main_pc' = "fetch" /\ main_date' = r.value /\ UNCHANGED exit_code
       ELSE main_pc' = "fetch" /\ UNCHANGED <<main_date, exit_code>>
    /\ UNCHANGED <<program, env, args, cfg, external_calls, select_vars, run_vars, retry_vars, aux_vars>>

\* what the calendars answer: no special day, some, or a JSON document that is
\* not an object ("data.get" is outside the try statement)
CalendarAnswers == {"none", "some", "malformed"}

\* --dry-run: fetch_special_days_for_ist_date / fetch_today_special_days, then
\* SystemExit(0) when there is no special day; an exception that the function
\* does not catch ends the process with a traceback (status 1)
DryRunFetch ==
    /\ program = "main.py"
    /\ main_pc = "fetch"
    /\ IF main_date # NoDate /\ date_window_overflows(main_date)
       THEN Exit(1) /\ UNCHANGED external_calls
       ELSE /\ external_calls' = external_calls \cup {"calendar.get"}
            /\ \E answer \in CalendarAnswers :
                 CASE answer = "malformed" -> Exit(1)
                   [] answer = "none" -> Exit(0)
                   [] answer = "some" -> main_pc' = "generate" /\ UNCHANGED exit_code
    /\ UNCHANGED <<program, env, args, cfg, main_date, select_vars, run_vars, retry_vars, aux_vars>>

\* --dry-run: generate_wish (which catches what the Ollama client raises), the
\* prints, SystemExit(0)
DryRunGenerate ==
    /\ program = "main.py"
    /\ main_pc = "generate"
    /\ external_calls' = external_calls \cup {"ollama.chat"}
    /\ Exit(0)
    /\ UNCHANGED <<program, env, args, cfg, main_date, select_vars, run_vars, retry_vars, aux_vars>>

\* client.run(token): the login and the gateway connection; a failed login
\* raises out of client.run (status 1)
ClientRun ==
    /\ program \in {"main.py", "daily_wisher.py"}
    /\ main_pc = "client_run"
    /\ external_calls' = external_calls \cup {"discord.connect"}
    /\ \/ Exit(1)
       \/ main_pc' = "on_ready" /\ UNCHANGED exit_code
    /\ UNCHANGED <<program, env, args, cfg, main_date, select_vars, run_vars, retry_vars, aux_vars>>

\* the external calls of one run of on_ready of main.py, by the way it ends
on_ready_calls(path) ==
    CASE path = "no_special_day" -> {"calendar.get"}
      [] path = "guild_not_found" -> {"calendar.get", "ollama.chat", "discord.fetch"}
      [] path = "exception" -> {"calendar.get"}
      [] path = "save_raised" ->
           {"calendar.get", "ollama.chat", "discord.fetch", "channel.send",
            "state.read", "member.send", "state.write"}
      [] path \in {"channel_not_found", "completed"} ->
           {"calendar.get", "ollama.chat", "discord.fetch", "channel.send",
            "state.read", "member.send", "state.write"}

\* main.py: on_ready runs and closes the client, client.run returns and the
\* script ends
MainOnReady ==
    /\ program = "main.py"
    /\ main_pc = "on_ready"
    /\ \E path \in ExitPaths :
         external_calls' = external_calls \cup on_ready_calls(path)
    /\ Exit(0)
    /\ UNCHANGED <<program, env, args, cfg, main_date, select_vars, run_vars, retry_vars, aux_vars>>

\* python daily_wisher.py [--test]
StartWisher ==
    /\ program = "none"
    /\ program' = "daily_wisher.py"
    /\ args' \in WisherArgs
    /\ main_pc' = "import_main"
    /\ UNCHANGED <<env, cfg, main_date, exit_code, external_calls, select_vars, run_vars, retry_vars, aux_vars>>

\* "from main import CHANNEL_ID, GUILD_ID, query_gemini_raw": ImportError
\* (status 1) with a main module that does not define the names, as the
\* main.py of src/; the script goes on with a main module that defines them
WisherImportMain ==
    /\ program = "daily_wisher.py"
    /\ main_pc = "import_main"
    /\ \/ Exit(1)
       \/ main_pc' = "client_run" /\ UNCHANGED exit_code
    /\ UNCHANGED <<program, env, args, cfg, main_date, external_calls, select_vars, run_vars, retry_vars, aux_vars>>

\* "if IS_TEST: print(...); return", else "await channel.send(**send_kwargs)"
wisher_delivery(is_test) == IF is_test THEN "print.test" ELSE "channel.send"

\* daily_wisher.py: on_ready, from the guild lookup to "finally: close"
WisherOnReady ==
    /\ program = "daily_wisher.py"
    /\ main_pc = "on_ready"
    /\ \E guild_found \in BOOLEAN, channel_found \in BOOLEAN, raised \in BOOLEAN :
         external_calls' = external_calls \cup
            (IF ~guild_found THEN {}
             ELSE {"gemini.generate"} \cup
                  (IF raised THEN {}
                   ELSE {"discord.fetch"} \cup
                        (IF channel_found THEN {wisher_delivery(args.test)} ELSE {})))
    /\ Exit(0)
    /\ UNCHANGED <<program, env, args, cfg, main_date, select_vars, run_vars, retry_vars, aux_vars>>

\* ------------------------------------------------------------------------
\* Sticker and emoji selection (src/main.py: resolve_sticker, on_ready,
\* pick_random_emojis; src/send_test_channel.py: on_ready)
\* ------------------------------------------------------------------------

MaxEmojis == 7    \* custom emojis of the guild: 0..MaxEmojis
MaxPick == 4      \* the argument count of pick_random_emojis: 0..MaxPick

Min(a, b) == IF a <= b THEN a ELSE b

\* The stickers of the guild, in the order fetch_stickers returns them: for
\* each sticker, whether its lower-cased name starts with the lower-cased prefix
StickerLists == UNION { [1..n -> BOOLEAN] : n \in 0..MaxCount }

\* "[s for s in stickers if prefix and name.lower().startswith(prefix.lower())]":
\* the positions in the guild list of the stickers that are kept
candidates_of(stickers, prefix_set) ==
    SelectSeq([i \in 1..Len(stickers) |-> i], LAMBDA i : prefix_set /\ stickers[i])

\* list[i] on a Python list: IndexError outside the list (i >= 0 here)
py_getitem(list, i) ==
    IF i < Len(list) THEN [raised |-> FALSE, value |-> list[i + 1]]
    ELSE [raised |-> TRUE, value |-> 0]

\* A selection: where it was made, the number of candidates, the argument
\* count (emojis), whether _stable_daily_index was called and what it returned,
\* whether indexing the list raised, and the sticker that results (0: None) or
\* the indices of the emojis returned
SelectionOf(site, n, count, called, index, raised, picked, indices) ==
    [site |-> site, n |-> n, count |-> count, called |-> called, index |-> index,
     raised |-> raised, picked |-> picked, indices |-> indices]

NoSelection == SelectionOf("none", 0, 0, FALSE, 0, FALSE, 0, <<>>)

\* "candidates[_stable_daily_index(date_ist, len(candidates))]"
daily_pick(site, candidates, d) ==
    LET idx == _stable_daily_index(d, Len(candidates))
        item == py_getitem(candidates, idx.value)
    IN SelectionOf(site, Len(candidates), 0, TRUE, idx.value,
                   idx.raised \/ item.raised,
                   IF idx.raised \/ item.raised THEN 0 ELSE item.value, <<>>)

\* no sticker is selected
no_pick(site, candidates) ==
    SelectionOf(site, Len(candidates), 0, FALSE, 0, FALSE, 0, <<>>)

\* variant: the daily pick is made whatever the list holds
nonempty_unchecked(candidates) == TRUE

\* the truth value of a list: "if not matches", "and candidates", "if candidates"
nonempty(candidates) == candidates # <<>>

\* resolve_sticker without an explicit sticker id (lines 140-155)
resolve_sticker(stickers_raised, stickers, prefix_set, d) ==
    IF ~prefix_set THEN no_pick("resolve_sticker", <<>>)
    ELSE IF stickers_raised THEN no_pick("resolve_sticker", <<>>)
    ELSE LET matches == candidates_of(stickers, TRUE)
         IN IF ~nonempty(matches) THEN no_pick("resolve_sticker", matches)
            ELSE daily_pick("resolve_sticker", matches, d)

\* the inline selection of on_ready: the AI pick when the mode is "ai" and there
\* are candidates (ai_choice: position in candidates, 0 for None), then the
\* daily pick when nothing is picked yet and there are candidates
inline_pick(site, stickers_raised, stickers, prefix_set, mode_ai, ai_choice, d) ==
    LET all_stickers == IF stickers_raised THEN <<>> ELSE stickers
        candidates == candidates_of(all_stickers, prefix_set)
        ai == IF mode_ai /\ nonempty(candidates) /\ ai_choice >= 1 /\ ai_choice <= Len(candidates)
              THEN candidates[ai_choice] ELSE 0
    IN IF ai # 0
       THEN SelectionOf(site, Len(candidates), 0, FALSE, 0, FALSE, ai, <<>>)
       ELSE IF nonempty(candidates) THEN daily_pick(site, candidates, d)
       ELSE no_pick(site, candidates)

\* a call of resolve_sticker(sticker_id=None, ...) by the running process
CallResolveSticker ==
    /\ proc > 0
    /\ selection = NoSelection
    /\ \E stickers_raised \in BOOLEAN, stickers \in StickerLists,
          prefix_set \in BOOLEAN, d \in Dates :
         selection' = resolve_sticker(stickers_raised, stickers, prefix_set, d)
    /\ UNCHANGED <<select_vars, run_vars, retry_vars, cli_vars,
                   announce_vars, notify_vars, text_vars, cal_vars>>

\* main.py on_ready, lines 1059-1084 (no sticker id configured)
OnReadyPickSticker ==
    /\ proc > 0
    /\ selection = NoSelection
    /\ \E stickers_raised \in BOOLEAN, stickers \in StickerLists, prefix_set \in BOOLEAN,
          mode_ai \in BOOLEAN, ai_choice \in 0..MaxCount, d \in Dates :
         selection' = inline_pick("main.on_ready", stickers_raised, stickers,
                                  prefix_set, mode_ai, ai_choice, d)
    /\ UNCHANGED <<select_vars, run_vars, retry_vars, cli_vars,
                   announce_vars, notify_vars, text_vars, cal_vars>>

\* send_test_channel.py on_ready, lines 67-96 (no sticker id configured)
SendTestChannelPickSticker ==
    /\ proc > 0
    /\ selection = NoSelection
    /\ \E stickers_raised \in BOOLEAN, stickers \in StickerLists, prefix_set \in BOOLEAN,
          mode_ai \in BOOLEAN, ai_choice \in 0..MaxCount, d \in Dates :
         selection' = inline_pick("send_test_channel.on_ready", stickers_raised,
                                  stickers, prefix_set, mode_ai, ai_choice, d)
    /\ UNCHANGED <<select_vars, run_vars, retry_vars, cli_vars,
                   announce_vars, notify_vars, text_vars, cal_vars>>

\* the elements of a sequence in the order of their first occurrence
RECURSIVE unique_in_order(_)
unique_in_order(seq) ==
    IF seq = <<>> THEN <<>>
    ELSE LET init == unique_in_order(SubSeq(seq, 1, Len(seq) - 1))
             last == seq[Len(seq)]
         IN IF \E i \in 1..Len(init) : init[i] = last THEN init ELSE Append(init, last)

\* pick_random_emojis(emojis, count, date_ist) for len(emojis) = n: the indices
\* of the emojis returned.  (seed + i * 7) % n is computed from the residues,
\* Python's integers being unbounded.
pick_random_emojis(n, count, d) ==
    IF n = 0 THEN <<>>
    ELSE LET seed == BitAndMask31(str_hash[isoformat(d)])
             indices == [k \in 1..Min(count, n) |-> ((seed % n) + (((k - 1) * 7) % n)) % n]
             unique_indices == unique_in_order(indices)
         IN SubSeq(unique_indices, 1, Min(count, Len(unique_indices)))

\* a call of pick_random_emojis by the running process
CallPickRandomEmojis ==
    /\ proc > 0
    /\ selection = NoSelection
    /\ \E n \in 0..MaxEmojis, count \in 0..MaxPick, d \in Dates :
         selection' = SelectionOf("pick_random_emojis", n, count, FALSE, 0, FALSE, 0,
                                  pick_random_emojis(n, count, d))
    /\ UNCHANGED <<select_vars, run_vars, retry_vars, cli_vars,
                   announce_vars, notify_vars, text_vars, cal_vars>>

NoPick == selection = NoSelection

\* ------------------------------------------------------------------------
\* Text sanitization (src/main.py and src/daily_wisher.py:
\* strip_discord_mentions; src/daily_wisher.py: enforce_allowed_custom_emojis)
\* ------------------------------------------------------------------------

MaxFragments == 3  \* fragments a text of the model is put together from

AsciiLetters ==
    { "a", "b", "c", "d", "e", "f", "g", "h", "i", "j", "k", "l", "m",
      "n", "o", "p", "q", "r", "s", "t", "u", "v", "w", "x", "y", "z",
      "A", "B", "C", "D", "E", "F", "G", "H", "I", "J", "K", "L", "M",
      "N", "O", "P", "Q", "R", "S", "T", "U", "V", "W", "X", "Y", "Z" }

\* \d+ : the number of digits at the start of text
RECURSIVE DigitRun(_)
DigitRun(text) ==
    IF text # <<>> /\ IsDigit(Head(text)) THEN 1 + DigitRun(Tail(text)) ELSE 0

\* text[k:] for a 0-based k
DropFirst(text, k) == SubSeq(text, k + 1, Len(text))

\* text.startswith(sub)
StartsWith(text, sub) == Len(text) >= Len(sub) /\ SubSeq(text, 1, Len(sub)) = sub

\* str.replace(old, new): the occurrences from left to right, not overlapping
RECURSIVE str_replace(_, _, _)
str_replace(text, old, new) ==
    IF text = <<>> THEN <<>>
    ELSE IF StartsWith(text, old) THEN new \o str_replace(DropFirst(text, Len(old)), old, new)
    ELSE <<Head(text)>> \o str_replace(Tail(text), old, new)

\* _MENTION_RE = <@&?\d+>|<@!?\d+> : the length of the match at the start of
\* text, 0 when there is none
mention_match(text) ==
    IF ~StartsWith(text, <<"<", "@">>) THEN 0
    ELSE LET mark == IF Len(text) >= 3 /\ text[3] \in {"&", "!"} THEN 1 ELSE 0
             digits == DigitRun(DropFirst(text, 2 + mark))
             end == 2 + mark + digits + 1
         IN IF digits >= 1 /\ Len(text) >= end /\ text[end] = ">" THEN end ELSE 0

\* [A-Za-z0-9_~]
IsEmojiNameChar(c) == c \in AsciiLetters \/ IsDigit(c) \/ c \in {"_", "~"}

\* [A-Za-z0-9_~]+ : the number of name characters at the start of text
RECURSIVE NameRun(_)
NameRun(text) ==
    IF text # <<>> /\ IsEmojiNameChar(Head(text)) THEN 1 + NameRun(Tail(text)) ELSE 0

\* _CUSTOM_EMOJI_RE = <a?:[A-Za-z0-9_~]+:\d+> : the length of the match at the
\* start of text, 0 when there is none
custom_emoji_match(text) ==
    IF text = <<>> \/ Head(text) # "<" THEN 0
    ELSE LET anim == IF Len(text) >= 3 /\ text[2] = "a" /\ text[3] = ":" THEN 1 ELSE 0
             colon == 2 + anim
             name == NameRun(DropFirst(text, colon))
             colon2 == colon + name + 1
             digits == DigitRun(DropFirst(text, colon2))
             end == colon2 + digits + 1
         IN IF /\ Len(text) >= colon /\ text[colon] = ":"
               /\ name >= 1
               /\ Len(text) >= colon2 /\ text[colon2] = ":"
               /\ digits >= 1
               /\ Len(text) >= end /\ text[end] = ">"
            THEN end ELSE 0

\* _MENTION_RE.sub("", text): the matches from left to right, not overlapping
RECURSIVE mention_sub(_)
mention_sub(text) ==
    IF text = <<>> THEN <<>>
    ELSE LET n == mention_match(text)
         IN IF n > 0
            THEN mention_sub(DropFirst(text, n))
            ELSE <<Head(text)>> \o mention_sub(Tail(text))

\* repl of enforce_allowed_custom_emojis
repl(token, allowed) == IF token \in allowed THEN token ELSE <<>>

\* _CUSTOM_EMOJI_RE.sub(repl, text): the matches from left to right, not
\* overlapping
RECURSIVE custom_emoji_sub(_, _)
custom_emoji_sub(text, allowed) ==
    IF text = <<>> THEN <<>>
    ELSE LET n == custom_emoji_match(text)
         IN IF n > 0
            THEN repl(SubSeq(text, 1, n), allowed)
                     \o custom_emoji_sub(DropFirst(text, n), allowed)
            ELSE <<Head(text)>> \o custom_emoji_sub(Tail(text), allowed)

\* variant: the last replace is left out
remove_at_signs_skipped(text) == text

\* text.replace("@", "")
remove_at_signs(text) == str_replace(text, <<"@">>, <<>>)

AtEveryone == <<"@", "e", "v", "e", "r", "y", "o", "n", "e">>
AtHere == <<"@", "h", "e", "r", "e">>

strip_discord_mentions(text) ==
    IF text = <<>> THEN <<>>
    ELSE LET t1 == str_replace(str_replace(text, AtEveryone, DropFirst(AtEveryone, 1)),
                               AtHere, DropFirst(AtHere, 1))
             t2 == mention_sub(t1)
             t3 == remove_at_signs(t2)
         IN StripSpaces(t3)

enforce_allowed_custom_emojis(text, allowed) ==
    IF text = <<>> THEN <<>>
    ELSE custom_emoji_sub(text, allowed)

\* the concatenations of at most k fragments
RECURSIVE Concatenations(_, _)
Concatenations(fragments, k) ==
    IF k = 0 THEN {<<>>}
    ELSE LET shorter == Concatenations(fragments, k - 1)
         IN shorter \cup { t \o f : t \in shorter, f \in fragments }

MentionFragments ==
    { AtEveryone, AtHere, <<"<", "@", "1", ">">>, <<"<", "@", "&", "1", "2", ">">>,
      <<"<", "@", "!", "1", ">">>, <<"<", "@">>, <<"@">>, <<"<">>, <<">">>,
      <<"1">>, <<"1", ">">>, <<" ">>, <<"h", "i">> }

EmojiFragments ==
    { <<"<", ":", "a", ":", "1", ">">>, <<"<", "a", ":", "b", "_", ":", "2", ">">>,
      <<"<", ":", "b", ":", "1", ">">>, <<"<", ":", "a">>, <<":", "2", ">">>,
      <<"<">>, <<">">>, <<":">>, <<"a">>, <<"1">>, <<" ">> }

\* the tokens an allowed list can hold
EmojiTokens ==
    { <<"<", ":", "a", ":", "1", ">">>, <<"<", ":", "a", ":", "2", ">">>,
      <<"<", "a", ":", "b", "_", ":", "2", ">">> }

TextCallOf(fn, text, allowed, result, again) ==
    [fn |-> fn, text |-> text, allowed |-> allowed, result |-> result, again |-> again]

NoText == text_call = TextCallOf("none", <<>>, {}, <<>>, <<>>)

\* strip_discord_mentions(text), and strip_discord_mentions of its result
CallStripDiscordMentions ==
    /\ text_call.fn = "none"
    /\ \E text \in Concatenations(MentionFragments, MaxFragments) :
         LET result == strip_discord_mentions(text)
         IN text_call' = TextCallOf("strip_discord_mentions", text, {}, result,
                                    strip_discord_mentions(result))
    /\ UNCHANGED <<select_vars, run_vars, retry_vars, cli_vars,
                   pick_vars, announce_vars, notify_vars, cal_vars>>

\* enforce_allowed_custom_emojis(text, allowed_tokens)
CallEnforceAllowedCustomEmojis ==
    /\ text_call.fn = "none"
    /\ \E text \in Concatenations(EmojiFragments, MaxFragments),
          allowed \in SUBSET EmojiTokens :
         text_call' = TextCallOf("enforce_allowed_custom_emojis", text, allowed,
                                 enforce_allowed_custom_emojis(text, allowed), <<>>)
    /\ UNCHANGED <<select_vars, run_vars, retry_vars, cli_vars,
                   pick_vars, announce_vars, notify_vars, cal_vars>>

\* ------------------------------------------------------------------------
\* The notification of the newly blocked members (src/main.py: on_ready,
\* lines 1157-1180)
\* ------------------------------------------------------------------------

MaxNewly == 90       \* members newly blocked in one run
MessageLimit == 2000 \* len(full_message) > 2000
ClipReserve == 40    \* remaining - 40

\* the number of decimal digits of a member id (a snowflake)
IdDigits == {17, 18, 19}

\* str(member.id) of the k-th member, d digits long
member_id(k, d) == <<"1">> \o ZeroPad(k, d - 1)

\* member.mention
mention(id) == <<"<", "@">> \o id \o <<">">>

\* the lists newly_dm_disabled_to_mention can be after the loop, as ids: the
\* first half of d1 digits and the rest of d2 digits
NewlyBlockedLists ==
    { [k \in 1..n |-> member_id(k, IF 2 * k <= n THEN d1 ELSE d2)] :
          n \in 0..MaxNewly, d1 \in IdDigits, d2 \in IdDigits }

\* " ".join(list)
RECURSIVE str_join(_)
str_join(list) ==
    IF list = <<>> THEN <<>>
    ELSE IF Len(list) = 1 THEN list[1]
    ELSE LET half == Len(list) \div 2
         IN str_join(SubSeq(list, 1, half)) \o <<" ">>
                \o str_join(SubSeq(list, half + 1, Len(list)))

\* text.count("<@")
count_mention_starts(text) ==
    Cardinality({ i \in 1..(Len(text) - 1) : text[i] = "<" /\ text[i + 1] = "@" })

\* text.rstrip()
RECURSIVE rstrip(_)
rstrip(text) ==
    IF text # <<>> /\ text[Len(text)] \in {" ", "\n"}
    THEN rstrip(SubSeq(text, 1, Len(text) - 1))
    ELSE text

\* str(n) for n >= 0
RECURSIVE str_of_int(_)
str_of_int(n) ==
    IF n < 10 THEN <<DigitChar[n + 1]>>
    ELSE Append(str_of_int(n \div 10), DigitChar[(n % 10) + 1])

\* f"\n(+{omitted_count} more)"
more_suffix(omitted_count) ==
    <<"\n", "(", "+">> \o str_of_int(omitted_count) \o <<" ", "m", "o", "r", "e", ")">>

\* base (lines 1159-1162)
base ==
    << "I", " ", "t", "r", "i", "e", "d", " ", "t", "o", " ", "D",
       "M", " ", "y", "o", "u", " ", "t", "o", "d", "a", "y", "'",
       "s", " ", "w", "i", "s", "h", " ", "b", "u", "t", " ", "c",
       "o", "u", "l", "d", "n", "'", "t", ".", " ", "P", "l", "e",
       "a", "s", "e", " ", "e", "n", "a", "b", "l", "e", " ", "D",
       "M", "s", " ", "(", "o", "r", " ", "a", "d", "d", " ", "m",
       "e", " ", "a", "s", " ", "a", " ", "f", "r", "i", "e", "n",
       "d", ")", " ", "s", "o", " ", "I", " ", "c", "a", "n", " ",
       "D", "M", " ", "y", "o", "u", " ", "n", "e", "x", "t", " ",
       "t", "i", "m", "e", ":", "\n", "\n" >>

\* variant: the whole remaining room is given to the mentions
clip_length_no_reserve(remaining) == Max(0, remaining)

\* max(0, remaining - 40)
clip_length(remaining) == Max(0, remaining - ClipReserve)

\* f"{base}{mentions_str}"
full_message(mentions) == base \o str_join(mentions)

\* the text passed to channel.send (lines 1171-1180)
notification_text(mentions) ==
    IF Len(full_message(mentions)) > MessageLimit
    THEN LET mentions_str == str_join(mentions)
             remaining == MessageLimit - Len(base)
             clipped_mentions ==
                 SubSeq(mentions_str, 1, Min(Len(mentions_str), clip_length(remaining)))
             omitted_count ==
                 Max(0, Len(mentions) - count_mention_starts(clipped_mentions))
         IN base \o (IF omitted_count > 0
                     THEN rstrip(clipped_mentions) \o more_suffix(omitted_count)
                     ELSE clipped_mentions)
    ELSE full_message(mentions)

\* the members' mentions, in the order of the list
MentionsOf(ids) == [k \in 1..Len(ids) |-> mention(ids[k])]

\* the DM loop and save_dm_disabled are over: newly_dm_disabled_to_mention is
\* what the loop made it
DmLoopDone ==
    /\ notify_pc = "idle"
    /\ \E ids \in NewlyBlockedLists : notify_ids' = ids
    /\ notify_pc' = "saved"
    /\ UNCHANGED <<notify_sends, select_vars, run_vars, retry_vars, cli_vars,
                   pick_vars, announce_vars, text_vars, cal_vars>>

\* "if newly_dm_disabled_to_mention:" is false
NotifyNothing ==
    /\ notify_pc = "saved"
    /\ notify_ids = <<>>
    /\ notify_pc' = "closed"
    /\ UNCHANGED <<notify_ids, notify_sends, select_vars, run_vars, retry_vars, cli_vars,
                   pick_vars, announce_vars, text_vars, cal_vars>>

\* fetch_channel raises: the message is printed and on_ready returns
NotifyChannelNotFound ==
    /\ notify_pc = "saved"
    /\ notify_ids # <<>>
    /\ notify_pc' = "closed"
    /\ UNCHANGED <<notify_ids, notify_sends, select_vars, run_vars, retry_vars, cli_vars,
                   pick_vars, announce_vars, text_vars, cal_vars>>

\* the one channel.send of the block, which returns or raises
NotifySend ==
    /\ notify_pc = "saved"
    /\ notify_ids # <<>>
    /\ \E raised \in BOOLEAN :
         notify_sends' = Append(notify_sends,
                                [text |-> notification_text(MentionsOf(notify_ids)),
                                 raised |-> raised])
    /\ notify_pc' = "closed"
    /\ UNCHANGED <<notify_ids, select_vars, run_vars, retry_vars, cli_vars,
                   pick_vars, announce_vars, text_vars, cal_vars>>

\* ------------------------------------------------------------------------
\* The channel announcement (src/main.py: on_ready, lines 1099-1125;
\* src/send_test_channel.py: on_ready, lines 110-134)
\* ------------------------------------------------------------------------

\* what a call of fetch_channel or channel.send can do: return, raise
\* discord.HTTPException, raise another Exception
CallOutcomes == {"returned", "http_exception", "other_exception"}

\* variant: "except Exception" around the send with the sticker
sticker_except_catches_all(outcome) == outcome # "returned"

\* "except discord.HTTPException" around the send with the sticker
sticker_except_catches(outcome) == outcome = "http_exception"

\* variant: no try block around the announcement
outer_except_missing(site) == FALSE

\* "except Exception" around the announcement: main.py has it (line 1124),
\* send_test_channel.py has only the finally clause
outer_except_catches(site) == site = "main"

\* the announcement is over: on_ready of main.py goes on with the DM phase
\* unless an exception leaves the function, on_ready of send_test_channel.py
\* ends
AfterAnnouncement(raised) ==
    IF raised /\ ~outer_except_catches(announce_site)
    THEN ExitOnReady("exception")
    ELSE IF announce_site = "main"
         THEN pc' = "load" /\ UNCHANGED <<exit_path, client_open>>
         ELSE ExitOnReady("completed")

\* on_ready up to the announcement: it returns early, or the sticker is
\* resolved (or not) and the embeds are built
AnnouncePrepare ==
    /\ pc = "idle"
    /\ run < MaxRuns
    /\ run' = run + 1
    /\ \E site \in {"main", "send_test_channel"} :
         /\ announce_site' = site
         /\ \/ /\ \E path \in {"no_special_day", "guild_not_found", "exception"} :
                    ExitOnReady(path)
               /\ UNCHANGED has_sticker
            \/ /\ pc' = "fetch_channel" /\ exit_path' = "none" /\ client_open' = TRUE
               /\ has_sticker' \in BOOLEAN
    /\ n_loads' = 0
    /\ n_saves' = 0
    /\ sleeps' = [m \in HumanIds |-> <<>>]
    /\ notify_result' = "none"
    /\ dm_disabled_known' = {}
    /\ dm_disabled_updated' = {}
    /\ newly_dm_disabled_to_mention' = <<>>
    /\ fetch_rest' = <<>>
    /\ cache_rest' = <<>>
    /\ phase' = "none"
    /\ attempts' = [m \in HumanIds |-> <<>>]
    /\ load_result' = "none"
    /\ save_result' = "none"
    /\ UNCHANGED <<dir_exists, file, announce_fetch, announce_sends,
                   select_vars, retry_vars, cli_vars,
                   pick_vars, notify_vars, text_vars, cal_vars>>

\* the run variables the announcement leaves alone
dm_vars == <<dir_exists, file, run, dm_disabled_known, dm_disabled_updated,
             newly_dm_disabled_to_mention, fetch_rest, cache_rest, phase, attempts,
             load_result, save_result, n_loads, n_saves, sleeps, notify_result>>

\* channel = await client.fetch_channel(...)
FetchChannel ==
    /\ pc = "fetch_channel"
    /\ \E outcome \in CallOutcomes :
         /\ announce_fetch' = outcome
         /\ IF outcome = "returned"
            THEN /\ pc' = IF has_sticker THEN "send_sticker" ELSE "send_plain"
                 /\ UNCHANGED <<exit_path, client_open>>
            ELSE AfterAnnouncement(TRUE)
    /\ UNCHANGED <<dm_vars, announce_site, has_sticker, announce_sends,
                   select_vars, retry_vars, cli_vars,
                   pick_vars, notify_vars, text_vars, cal_vars>>

\* "if sticker is not None": channel.send with the sticker
SendWithSticker ==
    /\ pc = "send_sticker"
    /\ \E outcome \in CallOutcomes :
         /\ announce_sends' = Append(announce_sends,
                                     [stickers |-> TRUE, outcome |-> outcome])
         /\ IF outcome = "returned" THEN AfterAnnouncement(FALSE)
            ELSE IF sticker_except_catches(outcome)
            THEN pc' = "send_retry" /\ UNCHANGED <<exit_path, client_open>>
            ELSE AfterAnnouncement(TRUE)
    /\ UNCHANGED <<dm_vars, announce_site, has_sticker, announce_fetch,
                   select_vars, retry_vars, cli_vars,
                   pick_vars, notify_vars, text_vars, cal_vars>>

\* channel.send without the sticker: in the except clause of the send with the
\* sticker, or in the else branch when no sticker was resolved
SendWithoutSticker ==
    /\ pc \in {"send_retry", "send_plain"}
    /\ \E outcome \in CallOutcomes :
         /\ announce_sends' = Append(announce_sends,
                                     [stickers |-> FALSE, outcome |-> outcome])
         /\ AfterAnnouncement(outcome # "returned")
    /\ UNCHANGED <<dm_vars, announce_site, has_sticker, announce_fetch,
                   select_vars, retry_vars, cli_vars,
                   pick_vars, notify_vars, text_vars, cal_vars>>

\* ------------------------------------------------------------------------
\* The special days of a date (src/main.py: _parse_rfc3339_datetime,
\* _event_occurs_on_ist_date, fetch_special_days_for_ist_date)
\* ------------------------------------------------------------------------

MaxCalendars == 2  \* entries of config.google_calendar_ids
MaxEvents == 2     \* items looked at in one call, over all calendars
IstOffset == 330   \* IST_FIXED_TZ, in minutes
DayMinutes == 1440 \* minutes of a day

\* the day after and the day before d
NextDay(d) ==
    IF d.day < DaysInMonth(d.year, d.month) THEN DateOf(d.year, d.month, d.day + 1)
    ELSE IF d.month < 12 THEN DateOf(d.year, d.month + 1, 1)
    ELSE DateOf(d.year + 1, 1, 1)

PrevDay(d) ==
    IF d.day > 1 THEN DateOf(d.year, d.month, d.day - 1)
    ELSE IF d.month > 1 THEN DateOf(d.year, d.month - 1, DaysInMonth(d.year, d.month - 1))
    ELSE DateOf(d.year - 1, 12, 31)

\* a start.dateTime value: the text is well-formed or not, and when it is, it
\* gives a date, a minute of the day and a UTC offset in minutes (or none)
DateTimeOf(valid, d, minute, has_tz, tz_minutes) ==
    [valid |-> valid, date |-> d, minute |-> minute,
     tz |-> [set |-> has_tz, minutes |-> tz_minutes]]

NoDateTime == [set |-> FALSE, dt |-> DateTimeOf(FALSE, NoDate, 0, FALSE, 0)]

\* _parse_rfc3339_datetime: None for a text fromisoformat rejects; a value
\* without offset is taken as UTC
parse_rfc3339_datetime(value) ==
    IF ~value.valid THEN [set |-> FALSE, dt |-> value]
    ELSE [set |-> TRUE,
          dt |-> IF value.tz.set THEN value
                 ELSE [value EXCEPT !.tz = [set |-> TRUE, minutes |-> 0]]]

\* dt.astimezone(IST_FIXED_TZ).date()
ist_date(dt) ==
    LET minute_ist == (dt.minute - dt.tz.minutes) + IstOffset
    IN IF minute_ist < 0 THEN PrevDay(dt.date)
       ELSE IF minute_ist >= DayMinutes THEN NextDay(dt.date)
       ELSE dt.date

\* _event_occurs_on_ist_date(item, date_ist)
event_occurs_on_ist_date(item, d) ==
    IF item.start.date.set /\ item.start.date.s # <<>>
    THEN item.start.date.s = isoformat(d)
    ELSE IF item.start.date_time.set
    THEN LET parsed == parse_rfc3339_datetime(item.start.date_time.dt)
         IN IF ~parsed.set THEN FALSE ELSE ist_date(parsed.dt) = d
    ELSE FALSE

\* variant: the key is the summary itself
str_casefold_keeps(chars) == chars

\* str.casefold(), on the letters of the model
str_casefold(chars) == PyLower(chars)

\* the "start" objects of the items of the model
StartOf(date_only, date_time) == [date |-> date_only, date_time |-> date_time]

DateTimeValue(dt) == [set |-> TRUE, dt |-> dt]

EventStarts ==
    { \* an all-day event
      StartOf(PyStr(isoformat(DateOf(2026, 1, 1))), NoDateTime),
      \* 20:00 UTC of the day before: 01:30 IST
      StartOf(PyNone, DateTimeValue(DateTimeOf(TRUE, DateOf(2025, 12, 31), 1200, TRUE, 0))),
      \* 00:10 IST, written with its offset
      StartOf(PyStr(<<>>),
              DateTimeValue(DateTimeOf(TRUE, DateOf(2026, 1, 1), 10, TRUE, IstOffset))),
      \* 19:00 without offset: 00:30 IST of the next day
      StartOf(PyNone, DateTimeValue(DateTimeOf(TRUE, DateOf(2025, 12, 31), 1140, FALSE, 0))),
      \* a text that is not a date and time
      StartOf(PyNone, DateTimeValue(DateTimeOf(FALSE, NoDate, 0, FALSE, 0))) }

EventSummaries ==
    { PyNone, PyStr(<<" ">>), PyStr(<<"D", "a", "y">>),
      PyStr(<<" ", "D", "A", "Y", " ">>), PyStr(<<"Y", "a", "y">>) }

EventItems == [start : EventStarts, summary : EventSummaries]

\* (item.get("summary") or "").strip()
summary_of(item) == StripSpaces(IF item.summary.set THEN item.summary.s ELSE <<>>)

\* the call: found and seen are empty, no calendar is queried yet
CallFetchSpecialDays ==
    /\ cal_pc = "idle"
    /\ \E d \in Dates, n \in 0..MaxCalendars :
         /\ cal_date' = d
         /\ cal_left' = n
         /\ queried' = [i \in 1..n |-> "pending"]
    /\ cal_pc' = "calendar"
    /\ cal_items' = 0
    /\ cal_found' = <<>>
    /\ cal_seen' = {}
    /\ offered' = <<>>
    /\ UNCHANGED <<select_vars, run_vars, retry_vars, cli_vars,
                   pick_vars, announce_vars, notify_vars, text_vars>>

\* the calendar about to be queried
CurrentCalendar == (Len(queried) - cal_left) + 1

\* requests.get, raise_for_status or response.json raises: "continue"
RequestFails ==
    /\ cal_pc = "calendar"
    /\ cal_left > 0
    /\ queried' = [queried EXCEPT ![CurrentCalendar] = "failed"]
    /\ cal_left' = cal_left - 1
    /\ UNCHANGED <<cal_pc, cal_date, cal_items, cal_found, cal_seen, offered,
                   select_vars, run_vars, retry_vars, cli_vars,
                   pick_vars, announce_vars, notify_vars, text_vars>>

\* the response is a JSON object; data.get("items", []) or [] has k items
RequestReturns ==
    /\ cal_pc = "calendar"
    /\ cal_left > 0
    /\ queried' = [queried EXCEPT ![CurrentCalendar] = "returned"]
    /\ \E k \in 0..(MaxEvents - Len(offered)) :
         /\ cal_items' = k
         /\ IF k = 0
            THEN cal_left' = cal_left - 1 /\ cal_pc' = "calendar"
            ELSE cal_left' = cal_left /\ cal_pc' = "items"
    /\ UNCHANGED <<cal_date, cal_found, cal_seen, offered,
                   select_vars, run_vars, retry_vars, cli_vars,
                   pick_vars, announce_vars, notify_vars, text_vars>>

\* the response is JSON but not an object: data.get raises outside the try
\* block and the exception leaves the function
RequestReturnsNoObject ==
    /\ cal_pc = "calendar"
    /\ cal_left > 0
    /\ queried' = [queried EXCEPT ![CurrentCalendar] = "no_object"]
    /\ cal_pc' = "raised"
    /\ UNCHANGED <<cal_date, cal_left, cal_items, cal_found, cal_seen, offered,
                   select_vars, run_vars, retry_vars, cli_vars,
                   pick_vars, announce_vars, notify_vars, text_vars>>

\* one round of "for item in ...": lines 828-838
NextItem ==
    /\ cal_pc = "items"
    /\ cal_items > 0
    /\ \E item \in EventItems :
         LET summary == summary_of(item)
             key == str_casefold(summary)
         IN /\ offered' = Append(offered, item)
            /\ IF /\ event_occurs_on_ist_date(item, cal_date)
                  /\ summary # <<>>
                  /\ key \notin cal_seen
               THEN /\ cal_seen' = cal_seen \cup {key}
                    /\ cal_found' = Append(cal_found, summary)
               ELSE UNCHANGED <<cal_seen, cal_found>>
    /\ cal_items' = cal_items - 1
    /\ IF cal_items = 1
       THEN cal_left' = cal_left - 1 /\ cal_pc' = "calendar"
       ELSE UNCHANGED <<cal_left, cal_pc>>
    /\ UNCHANGED <<cal_date, queried, select_vars, run_vars, retry_vars, cli_vars,
                   pick_vars, announce_vars, notify_vars, text_vars>>

\* "return found"
ReturnFound ==
    /\ cal_pc = "calendar"
    /\ cal_left = 0
    /\ cal_pc' = "returned"
    /\ UNCHANGED <<cal_date, cal_left, cal_items, cal_found, cal_seen, offered, queried,
                   select_vars, run_vars, retry_vars, cli_vars,
                   pick_vars, announce_vars, notify_vars, text_vars>>

\* ------------------------------------------------------------------------
\* Initial values of the parts a specification leaves alone
\* ------------------------------------------------------------------------

NoAnnounce ==
    /\ announce_site = "none"
    /\ has_sticker = FALSE
    /\ announce_fetch = "none"
    /\ announce_sends = <<>>

NoNotify ==
    /\ notify_pc = "idle"
    /\ notify_ids = <<>>
    /\ notify_sends = <<>>

NoCalendar ==
    /\ cal_pc = "idle"
    /\ cal_date = [year |-> 0, month |-> 0, day |-> 0]
    /\ cal_left = 0
    /\ cal_items = 0
    /\ cal_found = <<>>
    /\ cal_seen = {}
    /\ offered = <<>>
    /\ queried = <<>>

NoAux ==
    /\ NoPick
    /\ NoAnnounce
    /\ NoNotify
    /\ NoText
    /\ NoCalendar

\* the specification of the runs of on_ready
Init ==
    /\ NoProcess
    /\ IdleRun
    /\ NoRetry
    /\ NoProgram
    /\ NoAux
    /\ dir_exists \in BOOLEAN
    /\ file \in InitFiles
    /\ (~dir_exists => file = MissingFile)

Next ==
    \/ OnReadyBegin
    \/ LoadState
    \/ SkipBot
    \/ FetchMembersFails
    \/ MembersExhausted
    \/ DmSent
    \/ DmForbidden
    \/ DmError
    \/ SaveState
    \/ NotifyAndClose

Spec == Init /\ [][Next]_vars

\* the specification of the daily index selection
InitSelect ==
    /\ NoProcess
    /\ IdleRun
    /\ NoRetry
    /\ NoProgram
    /\ NoAux
    /\ dir_exists = FALSE
    /\ file = MissingFile

NextSelect ==
    \/ StartProcess
    \/ CallStableDailyIndex

SpecSelect == InitSelect /\ [][NextSelect]_vars

\* the specification of generate_with_retry
InitRetry ==
    /\ NoProcess
    /\ IdleRun
    /\ NoRetry
    /\ NoProgram
    /\ NoAux
    /\ dir_exists = FALSE
    /\ file = MissingFile

NextRetry ==
    \/ GenerateBegin
    \/ QueryGeminiReturns
    \/ QueryGeminiRaises
    \/ ReturnFallback

SpecRetry == InitRetry /\ [][NextRetry]_vars

\* the specification of the command lines
InitMain ==
    /\ NoProcess
    /\ IdleRun
    /\ NoRetry
    /\ NoProgram
    /\ NoAux
    /\ dir_exists = FALSE
    /\ file = MissingFile

NextMain ==
    \/ StartMain
    \/ MainLoadConfig
    \/ DryRunParseDate
    \/ DryRunFetch
    \/ DryRunGenerate
    \/ ClientRun
    \/ MainOnReady
    \/ StartWisher
    \/ WisherImportMain
    \/ WisherOnReady

SpecMain == InitMain /\ [][NextMain]_vars

\* the specification of the selections at the call sites
InitPick ==
    /\ NoProcess
    /\ IdleRun
    /\ NoRetry
    /\ NoProgram
    /\ NoAux
    /\ dir_exists = FALSE
    /\ file = MissingFile

NextPick ==
    \/ StartProcess
    \/ CallResolveSticker
    \/ OnReadyPickSticker
    \/ SendTestChannelPickSticker
    \/ CallPickRandomEmojis

SpecPick == InitPick /\ [][NextPick]_vars

\* the specification of the text sanitizers
InitText ==
    /\ NoProcess
    /\ IdleRun
    /\ NoRetry
    /\ NoProgram
    /\ NoAux
    /\ dir_exists = FALSE
    /\ file = MissingFile

NextText ==
    \/ CallStripDiscordMentions
    \/ CallEnforceAllowedCustomEmojis

SpecText == InitText /\ [][NextText]_vars

\* the specification of the notification of the newly blocked members
InitNotify ==
    /\ NoProcess
    /\ IdleRun
    /\ NoRetry
    /\ NoProgram
    /\ NoAux
    /\ dir_exists = FALSE
    /\ file = MissingFile

NextNotify ==
    \/ DmLoopDone
    \/ NotifyNothing
    \/ NotifyChannelNotFound
    \/ NotifySend

SpecNotify == InitNotify /\ [][NextNotify]_vars

\* the specification of one run with its channel announcement
InitAnnounce ==
    /\ NoProcess
    /\ IdleRun
    /\ NoRetry
    /\ NoProgram
    /\ NoAux
    /\ dir_exists = FALSE
    /\ file = MissingFile

NextAnnounce ==
    \/ AnnouncePrepare
    \/ FetchChannel
    \/ SendWithSticker
    \/ SendWithoutSticker
    \/ LoadState
    \/ SkipBot
    \/ FetchMembersFails
    \/ MembersExhausted
    \/ DmSent
    \/ DmForbidden
    \/ DmError
    \/ SaveState
    \/ NotifyAndClose

SpecAnnounce == InitAnnounce /\ [][NextAnnounce]_vars

\* the specification of fetch_special_days_for_ist_date
InitCalendar ==
    /\ NoProcess
    /\ IdleRun
    /\ NoRetry
    /\ NoProgram
    /\ NoAux
    /\ dir_exists = FALSE
    /\ file = MissingFile

NextCalendar ==
    \/ CallFetchSpecialDays
    \/ RequestFails
    \/ RequestReturns
    \/ RequestReturnsNoObject
    \/ NextItem
    \/ ReturnFound

SpecCalendar == InitCalendar /\ [][NextCalendar]_vars

\* ------------------------------------------------------------------------
\* Properties of the daily index selection (checked under SpecSelect)
\* ------------------------------------------------------------------------

CallIds == 1..Len(calls)

\* C1: for every date and every count n >= 1, _stable_daily_index returns
\* without raising an integer i with 0 <= i < n.
Thm_C1_IndexInRange ==
    \A i \in CallIds :
        calls[i].count >= 1 =>
            /\ ~calls[i].raised
            /\ calls[i].value \in 0..(calls[i].count - 1)

\* a call with at least two candidates that picked the last one
Wit_C1_LastIndexPicked ==
    \E i \in CallIds :
        /\ calls[i].count >= 2
        /\ ~calls[i].raised
        /\ calls[i].value = calls[i].count - 1

\* C2: for a fixed date and count, any two calls of _stable_daily_index, also
\* calls made by two different processes, return the same index.
Cex_C2_SameIndexAcrossProcesses ==
    \A i \in CallIds, j \in CallIds :
        (calls[i].date = calls[j].date /\ calls[i].count = calls[j].count) =>
            (calls[i].raised = calls[j].raised /\ calls[i].value = calls[j].value)

\* C3 as stated: for count = 0, _stable_daily_index does not raise and returns
\* a sentinel, a value that is no valid index of any candidate list.
Cex_C3_SentinelForZeroCount ==
    \A i \in CallIds :
        calls[i].count = 0 => (~calls[i].raised /\ calls[i].value \notin Nat)

\* C3 amended: for count = 0, _stable_daily_index does not raise and returns
\* 0 (the modulo is taken by max(1, count) = 1, never by the count).
Thm_C3_ZeroCountReturnsZero ==
    \A i \in CallIds :
        calls[i].count = 0 => (~calls[i].raised /\ calls[i].value = 0)

\* a call with count = 0 in a process whose hash of the date has low bits # 0
Wit_C3_ZeroCountCalled ==
    \E i \in CallIds :
        /\ calls[i].count = 0
        /\ calls[i].proc = proc
        /\ BitAndMask31(str_hash[isoformat(calls[i].date)]) # 0

\* ------------------------------------------------------------------------
\* Properties of the delivery state (checked under Spec)
\* ------------------------------------------------------------------------

\* the elements of a sequence
Range(seq) == { seq[i] : i \in 1..Len(seq) }

\* a character that is no decimal digit
NonDigit(c) == c \notin Range(DigitChar)

\* a "user_ids" element that int() rejects: null, or a string that is no number
RejectedByInt(e) ==
    \/ e.t = "null"
    \/ e.t = "str" /\ (e.s = <<>> \/ \E c \in Range(e.s) : NonDigit(c))

\* a "user_ids" element that is no JSON integer
NonIntegerId(e) == e.t # "int"

\* the file is missing, empty, not valid JSON or not a JSON object
NoJsonObject(f) == f.kind \in {"missing", "empty", "invalid", "array"}

\* the file is an object whose "user_ids" cannot be iterated, or holds an
\* element that int() rejects
UnconvertibleIds(f) ==
    /\ f.kind = "object"
    /\ \/ f.ids_kind \in {"null", "number"}
       \/ f.ids_kind = "list" /\ \E e \in Range(f.ids) : RejectedByInt(e)
       \/ f.ids_kind = "string" /\ \E c \in Range(f.ids) : NonDigit(c)

\* load_dm_disabled has returned in this run and the file is as it read it
\* (the file is not written before the save at the end of the member loop)
Loaded == load_result = "returned" /\ pc = "loop"

\* C4 as stated: load_dm_disabled never raises, and returns the empty set when
\* the file is missing, empty, not valid JSON, not a JSON object, or holds a
\* non-integer id.
Cex_C4_NonIntegerIdsGiveEmptySet ==
    /\ load_result # "raised"
    /\ Loaded =>
         ((\/ NoJsonObject(file)
           \/ UnconvertibleIds(file)
           \/ file.kind = "object" /\ file.ids_kind = "list"
                /\ \E e \in Range(file.ids) : NonIntegerId(e))
          => dm_disabled_known = {})

\* C4 amended: load_dm_disabled never raises; it returns the empty set when the
\* file is missing, empty, not valid JSON, not a JSON object, or its "user_ids"
\* cannot be iterated or holds a value that int() rejects (null, a string that
\* is no number); a list of values that int() accepts (integers, floats,
\* numeric strings) is loaded as the set of their int() conversions, a float
\* truncated towards zero.
Thm_C4_LoadNeverRaises ==
    /\ load_result # "raised"
    /\ Loaded =>
         /\ (NoJsonObject(file) \/ UnconvertibleIds(file)) => dm_disabled_known = {}
         /\ (file.kind = "object" /\ file.ids_kind = "list"
               /\ \A e \in Range(file.ids) : ~RejectedByInt(e))
            => /\ Cardinality(dm_disabled_known) <= Len(file.ids)
               /\ (file.ids # <<>> => dm_disabled_known # {})
               /\ \A e \in Range(file.ids) :
                    /\ e.t = "int" => e.n \in dm_disabled_known
                    /\ (e.t = "float" /\ e.n > 0) =>
                          \E k \in dm_disabled_known : 2 * k < e.n /\ e.n < 2 * k + 2
                    /\ (e.t = "float" /\ e.n < 0) =>
                          \E k \in dm_disabled_known : 2 * k - 2 < e.n /\ e.n < 2 * k
                    /\ e.t = "str" => DigitsValue(e.s) \in dm_disabled_known

\* a file whose list holds an integer id and a value int() rejects was loaded
\* as the empty set
Wit_C4_RejectedIdLoadsEmpty ==
    /\ Loaded
    /\ file.kind = "object" /\ file.ids_kind = "list"
    /\ \E e \in Range(file.ids) : e.t = "int"
    /\ \E e \in Range(file.ids) : RejectedByInt(e)
    /\ dm_disabled_known = {}

\* save_dm_disabled has just returned without raising
Saved == pc = "notify" /\ save_result = "ok"

\* what a fresh load_dm_disabled() returns for the file as it is now
FreshLoad == load_dm_disabled(file).value

\* C5: after a successful save_dm_disabled(S), whatever the file held before, a
\* fresh load returns exactly S, the file holds the ids of S once each in
\* ascending order, and the directory exists.
Thm_C5_SaveThenLoadRoundTrip ==
    Saved =>
        /\ dir_exists
        /\ file.kind = "object" /\ file.ids_kind = "list"
        /\ Len(file.ids) = Cardinality(dm_disabled_updated)
        /\ \A i \in 1..Len(file.ids) : file.ids[i].t = "int"
        /\ \A i \in 1..(Len(file.ids) - 1) : file.ids[i].n < file.ids[i + 1].n
        /\ load_dm_disabled(file).exc = "none"
        /\ FreshLoad = dm_disabled_updated

\* a save that replaced a file holding an id that is not in the saved set
Wit_C5_SaveReplacedOldContent ==
    /\ Saved
    /\ dm_disabled_known \ dm_disabled_updated # {}
    /\ dm_disabled_updated \ dm_disabled_known # {}

\* C6: if a member's delivery failed with Forbidden during the run and the save
\* succeeded, a fresh load contains the member's id.
Cex_C6_ForbiddenIdIsLoaded ==
    Saved => \A m \in HumanIds : "forbidden" \in Range(attempts[m]) => m \in FreshLoad

\* C7: if in one run a Forbidden failure for an id was followed by a successful
\* delivery to the same id, then after the (successful) save the id is absent
\* from a fresh load.
Thm_C7_SuccessAfterForbiddenRemoves ==
    Saved =>
        \A m \in HumanIds :
            (\E i \in 1..Len(attempts[m]) :
                /\ attempts[m][i] = "forbidden"
                /\ \E j \in (i + 1)..Len(attempts[m]) : attempts[m][j] = "ok")
            => m \notin FreshLoad

\* a saved run in which a member first failed with Forbidden, then was reached
Wit_C7_ForbiddenThenSuccess ==
    /\ Saved
    /\ \E m \in HumanIds : attempts[m] = <<"forbidden", "ok">>

\* how many entries of the newly-blocked list are the mention of m
Reported(m) ==
    Cardinality({ i \in 1..Len(newly_dm_disabled_to_mention) :
                    newly_dm_disabled_to_mention[i] = Mention(m) })

\* C8: within one run, a member for whom the Forbidden branch is taken twice is
\* appended to the newly-blocked list only the first time.
Cex_C8_ReportedOnce ==
    \A m \in HumanIds : Reported(m) <= 1

\* C9: a Forbidden failure for member m adds m to the in-memory set, and m is
\* appended to the newly-blocked list if and only if m was not in the set
\* loaded at the start of the run (the set the file still holds), whatever was
\* recorded earlier in the run.
Thm_C9_NewlyBlockedIffNotLoaded ==
    [][\A m \in HumanIds :
         (attempts'[m] = Append(attempts[m], "forbidden")) =>
            /\ m \in dm_disabled_updated'
            /\ dm_disabled_known = FreshLoad
            /\ (m \notin FreshLoad =>
                  newly_dm_disabled_to_mention' =
                      Append(newly_dm_disabled_to_mention, Mention(m)))
            /\ (m \in FreshLoad =>
                  newly_dm_disabled_to_mention' = newly_dm_disabled_to_mention)]_vars

\* a member of the loaded set was reached, then failed with Forbidden, and is
\* not reported; another member failed twice and is reported twice
Wit_C9_ForbiddenAfterEarlierAttempts ==
    /\ pc = "loop"
    /\ \E m \in HumanIds :
         /\ m \in dm_disabled_known
         /\ attempts[m] = <<"ok", "forbidden">>
         /\ m \in dm_disabled_updated
         /\ Reported(m) = 0
    /\ \E m \in HumanIds :
         /\ m \notin dm_disabled_known
         /\ attempts[m] = <<"forbidden", "forbidden">>
         /\ Reported(m) = 2

\* the ids whose last attempt of the run had the given outcome
LastAttempt(outcome) ==
    { m \in HumanIds : attempts[m] # <<>> /\ attempts[m][Len(attempts[m])] = outcome }

\* C10: at the end of a run whose save succeeded, the persisted user_ids are
\* exactly the set loaded at the start, minus the ids whose last attempt
\* succeeded, plus the ids whose last attempt failed with Forbidden, written in
\* ascending order.
Cex_C10_PersistedIsLoadedMinusOkPlusForbidden ==
    Saved =>
        LET expected == sorted((dm_disabled_known \ LastAttempt("ok"))
                                 \cup LastAttempt("forbidden"))
        IN file.ids = [i \in 1..Len(expected) |-> JInt(expected[i])]

\* member m has just been attempted with the given outcome (a step)
AttemptStep(m, outcome) == attempts'[m] = Append(attempts[m], outcome)

\* the file was written by the successful save of an earlier run and lists m
BlockedByEarlierRun(m) ==
    /\ file.kind = "object" /\ file.ids_kind = "list"
    /\ file.stamp >= 1 /\ file.stamp < run
    /\ JInt(m) \in Range(file.ids)

\* C11: across runs whose saves succeed, an id goes Unknown -> Blocked on a
\* Forbidden failure and Blocked -> Unknown on a success; a member that fails
\* with Forbidden while Blocked by an earlier run is not reported again, and a
\* success for an id that is not in the set leaves the set unchanged.
Thm_C11_BlockedAcrossRuns ==
    [][\A m \in HumanIds :
         /\ AttemptStep(m, "forbidden") =>
              /\ dm_disabled_updated' = dm_disabled_updated \cup {m}
              /\ (BlockedByEarlierRun(m) =>
                    newly_dm_disabled_to_mention' = newly_dm_disabled_to_mention)
         /\ AttemptStep(m, "ok") =>
              /\ m \notin dm_disabled_updated'
              /\ dm_disabled_updated' \cup {m} = dm_disabled_updated \cup {m}
              /\ (m \notin dm_disabled_updated =>
                    dm_disabled_updated' = dm_disabled_updated)]_vars

\* in a second run, a member blocked by the first run failed again and is not
\* reported, and a member that was not in the set was reached
Wit_C11_BlockedAgainNotReported ==
    /\ run >= 2
    /\ \E m \in HumanIds :
         /\ BlockedByEarlierRun(m)
         /\ "forbidden" \in Range(attempts[m])
         /\ Reported(m) = 0
    /\ \E m \in HumanIds :
         /\ m \notin dm_disabled_known
         /\ attempts[m] = <<"ok">>

\* C12: if save_dm_disabled raises at the end of the member loop, the run is
\* not aborted: the step that notifies the newly blocked members is still
\* performed.
Cex_C12_SaveFailureDoesNotAbort ==
    (pc = "closed" /\ save_result = "raised") =>
        (notify_result # "none" /\ exit_path # "save_raised")

\* C13: when a DM attempt fails with an exception other than Forbidden, the
\* in-memory set and the newly-blocked list are left unchanged.
Thm_C13_OtherErrorChangesNothing ==
    [][\A m \in HumanIds :
         AttemptStep(m, "error") =>
            /\ dm_disabled_updated' = dm_disabled_updated
            /\ newly_dm_disabled_to_mention' = newly_dm_disabled_to_mention
            /\ dm_disabled_known' = dm_disabled_known]_vars

\* a member outside the loaded set failed with another exception and is neither
\* in the set nor reported, while another member was recorded as blocked
Wit_C13_OtherErrorRecordedNowhere ==
    /\ pc = "loop"
    /\ \E m \in HumanIds :
         /\ attempts[m] = <<"error">>
         /\ m \notin dm_disabled_known
         /\ m \notin dm_disabled_updated
         /\ Reported(m) = 0
    /\ \E m \in HumanIds : Reported(m) = 1

\* C14: a failed delivery never stops the run: once the state is loaded, the
\* run ends only after save_dm_disabled was called, and the save is called only
\* when the member iteration is exhausted, every member that fetch_members
\* handed out having had its attempt.
Thm_C14_FailureDoesNotStopRun ==
    /\ (pc = "closed" /\ load_result = "returned") => save_result # "none"
    /\ (pc \in {"save", "notify"} \/ save_result # "none") =>
         /\ phase = "done"
         /\ cache_rest = <<>>
         /\ \A m \in HumanIds : m \notin Range(fetch_rest) => attempts[m] # <<>>

\* the first member failed with another exception, a later one with Forbidden,
\* and the save was reached
Wit_C14_SaveReachedAfterFailures ==
    /\ save_result # "none"
    /\ \E m1 \in HumanIds, m2 \in HumanIds :
         /\ m1 < m2
         /\ attempts[m1] = <<"error">>
         /\ attempts[m2] = <<"forbidden">>

\* on_ready ended before the DM phase
EndedBeforeDmPhase ==
    /\ pc = "closed"
    /\ load_result = "none"
    /\ exit_path \in {"no_special_day", "guild_not_found", "exception"}

\* C15 as stated: every run loads the delivery state exactly once and writes it
\* back exactly once.
Cex_C15_EveryRunLoadsAndSavesOnce ==
    (run >= 1 /\ pc = "closed") => (n_loads = 1 /\ n_saves = 1)

\* C15 amended: a run that reaches the DM phase calls load_dm_disabled exactly
\* once, before any delivery attempt, and save_dm_disabled exactly once, after
\* the last delivery attempt; the file is not written between the load and the
\* save.  A run that ends before the DM phase neither loads nor writes.
Thm_C15_LoadOnceSaveOnce ==
    /\ n_loads <= 1 /\ n_saves <= 1
    /\ (\E m \in HumanIds : attempts[m] # <<>>) => n_loads = 1
    /\ n_saves = 1 => (n_loads = 1 /\ phase = "done")
    /\ pc = "loop" => (n_saves = 0 /\ file.stamp < run /\ FreshLoad = dm_disabled_known)
    /\ pc = "closed" =>
         IF EndedBeforeDmPhase THEN n_loads = 0 /\ n_saves = 0
         ELSE n_loads = 1 /\ n_saves = 1

\* a completed run with delivery attempts, one load and one save
Wit_C15_CompletedRun ==
    /\ pc = "closed" /\ exit_path = "completed"
    /\ n_loads = 1 /\ n_saves = 1
    /\ \A m \in HumanIds : attempts[m] # <<>>

\* C18: every DM attempt is followed by exactly one pause: 0.6 s after a
\* successful send, 0.2 s after a failed one (Forbidden or another exception).
Thm_C18_PauseAfterEachAttempt ==
    \A m \in HumanIds :
        /\ Len(sleeps[m]) = Len(attempts[m])
        /\ \A i \in 1..Len(attempts[m]) :
             sleeps[m][i] = IF attempts[m][i] = "ok" THEN 6 ELSE 2

\* attempts with each of the three outcomes, each followed by its pause
Wit_C18_AllThreePauses ==
    \E m1 \in HumanIds, m2 \in HumanIds :
        /\ attempts[m1] = <<"forbidden", "ok">> /\ sleeps[m1] = <<2, 6>>
        /\ attempts[m2] = <<"error">> /\ sleeps[m2] = <<2>>

\* C20: when on_ready has ended, by whatever path, client.close() has been
\* called; the connection is open only while on_ready runs.
Thm_C20_ClientClosedOnEveryPath ==
    /\ pc = "closed" => (~client_open /\ exit_path \in ExitPaths)
    /\ client_open => pc \in {"load", "loop", "save", "notify"}

\* a run that ended because save_dm_disabled raised, with the client closed
Wit_C20_ClosedAfterSaveRaised ==
    /\ pc = "closed"
    /\ exit_path = "save_raised"
    /\ ~client_open

\* ------------------------------------------------------------------------
\* Properties of generate_with_retry (checked under SpecRetry)
\* ------------------------------------------------------------------------

\* the response contains the words "Gemini API Error" one after the other
HasMarker(msg) ==
    \E i \in 1..Len(msg) :
        /\ i + 2 <= Len(msg)
        /\ msg[i] = "Gemini" /\ msg[i + 1] = "API" /\ msg[i + 2] = "Error"

\* C19: generate_with_retry makes at most three generator calls; it returns
\* the first response that does not contain "Gemini API Error", without
\* calling again; it returns the fallback text iff all three responses contain
\* the marker.
Thm_C19_RetryAtMostThreeTimes ==
    /\ Len(responses) <= 3
    /\ \A i \in 1..(Len(responses) - 1) : HasMarker(responses[i])
    /\ retry_pc \in {"returned", "raised"} => ~ENABLED NextRetry
    /\ retry_pc = "returned" =>
         /\ retry_result.via \in {"response", "fallback"}
         /\ retry_result.via = "response" =>
              /\ retry_result.value = responses[Len(responses)]
              /\ ~HasMarker(retry_result.value)
         /\ retry_result.via = "fallback" <=>
              /\ Len(responses) = 3
              /\ \A i \in 1..3 : HasMarker(responses[i])
         /\ retry_result.via = "fallback" => retry_result.value = retry_fallback
    /\ retry_pc # "returned" => retry_result.via = "none"

\* three responses with the marker, the last with the marker inside the text,
\* and the fallback returned
Wit_C19_FallbackAfterThreeErrors ==
    /\ retry_pc = "returned"
    /\ retry_result.via = "fallback"
    /\ retry_result.value = <<"Wishing", "you", "a", "lovely", "Night">>
    /\ Len(responses) = 3
    /\ responses[3] = <<"Sorry", "Gemini", "API", "Error">>

\* ------------------------------------------------------------------------
\* Properties of the command lines (checked under SpecMain)
\* ------------------------------------------------------------------------

\* the variable is unset or holds only spaces
Blank(name) == ~env[name].set \/ \A i \in 1..Len(env[name].s) : env[name].s[i] = " "

\* the text is an integer literal: digits, after an optional sign, between
\* optional spaces
IsIntegerText(chars) ==
    \E a \in 1..Len(chars), b \in 1..Len(chars) :
        /\ a <= b
        /\ \A i \in 1..(a - 1) : chars[i] = " "
        /\ \A i \in (b + 1)..Len(chars) : chars[i] = " "
        /\ \/ \A i \in a..b : chars[i] \in Range(DigitChar)
           \/ /\ a < b
              /\ chars[a] \in {"+", "-"}
              /\ \A i \in (a + 1)..b : chars[i] \in Range(DigitChar)

\* the integer setting that is read from the first of two variables that is not
\* blank is missing or is not an integer
IntSettingRejected(first, second) ==
    IF ~Blank(first) THEN ~IsIntegerText(env[first].s)
    ELSE IF ~Blank(second) THEN ~IsIntegerText(env[second].s)
    ELSE TRUE

\* a required setting is missing or invalid
ConfigRejected ==
    \/ Blank("DISCORD_TOKEN") /\ Blank("DISCORD_BOT_API_KEY")
    \/ IntSettingRejected("DISCORD_GUILD_ID", "GUILD_ID")
    \/ IntSettingRejected("DISCORD_FALLBACK_CHANNEL_ID", "CHANNEL_ID")
    \/ ~Blank("DISCORD_STICKER_ID") /\ ~IsIntegerText(env["DISCORD_STICKER_ID"].s)
    \/ /\ ~Blank("DISCORD_STICKER_PICK_MODE")
       /\ env["DISCORD_STICKER_PICK_MODE"].s \notin
              { <<" ", "A", "I", " ">>, <<"D", "a", "i", "l", "y">> }
    \/ /\ Blank("GOOGLE_API_KEY")
       /\ Blank("GOOGLE_CALENDAR_API_KEY")
       /\ Blank("GOOGLE_CALENDER_API_KEY")
    \/ Blank("GOOGLE_CALENDAR_IDS")
    \/ \A i \in 1..Len(env["GOOGLE_CALENDAR_IDS"].s) :
           env["GOOGLE_CALENDAR_IDS"].s[i] \in {",", " "}

\* main.py has gone through "cfg = load_config()"
ConfigLoaded == program = "main.py" /\ main_pc # "load_config"

\* C16: if a required setting is missing or invalid (Discord token, guild id,
\* channel id, Google API key, calendar id list, a non-integer sticker id, a
\* sticker pick mode other than 'daily'/'ai'), main.py exits with code 2 before
\* any external call is made; with every required setting usable the
\* configuration is accepted.
Thm_C16_ConfigErrorExitsWithTwo ==
    ConfigLoaded =>
        /\ ConfigRejected <=> cfg.exc # "none"
        /\ ConfigRejected =>
             /\ main_pc = "exited"
             /\ exit_code = 2
             /\ external_calls = {}

\* DISCORD_GUILD_ID is not an integer while GUILD_ID is one: exit with code 2
Wit_C16_NonIntegerGuildId ==
    /\ ConfigLoaded
    /\ env["DISCORD_GUILD_ID"].s = <<"4", ".", "2">>
    /\ env["GUILD_ID"].s = <<" ", "7">>
    /\ cfg.error = "DISCORD_GUILD_ID"
    /\ exit_code = 2

\* the calls that connect to Discord, send, or touch the state file
DeliveryCalls ==
    {"discord.connect", "discord.fetch", "channel.send", "member.send",
     "state.read", "state.write"}

\* --date is given and is not a calendar day in YYYY-MM-DD form
DateRejected ==
    /\ args.date.set /\ args.date.s # <<>>
    /\ args.date.s \notin { isoformat(DateOf(2026, 1, 1)), isoformat(DateMin),
                            isoformat(DateMax) }

DryRun == program = "main.py" /\ args.dry_run
TestRun == program = "daily_wisher.py" /\ args.test

Cex_C23_AtMostOneAttemptPerMember ==
    \A m \in HumanIds : Len(attempts[m]) <= 1

\* ------------------------------------------------------------------------
\* Properties of the selections at the call sites (checked under SpecPick)
\* ------------------------------------------------------------------------

StickerSites == {"resolve_sticker", "main.on_ready", "send_test_channel.on_ready"}

\* C24: at every call site the index returned by _stable_daily_index is used
\* only on a non-empty candidate list and is a valid index of that list; when
\* the candidate list is empty no selection is made and no sticker is attached.
Thm_C24_IndexOnlyOnNonEmptyList ==
    selection.site \in StickerSites =>
        /\ selection.called =>
             /\ selection.n >= 1
             /\ selection.index >= 0 /\ selection.index < selection.n
        /\ ~selection.raised
        /\ selection.n = 0 => (~selection.called /\ selection.picked = 0)

\* on_ready of main.py picked the last of two candidates, the third sticker of
\* the guild, by the daily index
Wit_C24_DailyPickOfLastCandidate ==
    /\ selection.site = "main.on_ready"
    /\ selection.called
    /\ selection.n = 2
    /\ selection.index = 1
    /\ selection.picked = 3

\* C29: for every non-empty emoji list, every count >= 0 and every date,
\* pick_random_emojis returns exactly min(count, len(emojis)) pairwise-distinct
\* elements of the list; for an empty list it returns the empty list.
Cex_C29_PicksMinCountLenDistinct ==
    selection.site = "pick_random_emojis" =>
        /\ Len(selection.indices) =
               IF selection.count <= selection.n THEN selection.count ELSE selection.n
        /\ \A i \in 1..Len(selection.indices), j \in 1..Len(selection.indices) :
               i # j => selection.indices[i] # selection.indices[j]
        /\ \A i \in 1..Len(selection.indices) :
               selection.indices[i] \in 0..(selection.n - 1)

\* ------------------------------------------------------------------------
\* Properties of the text sanitizers (checked under SpecText)
\* ------------------------------------------------------------------------

\* C21: for every input text the result of strip_discord_mentions contains no
\* '@' character, and applying strip_discord_mentions to its own result returns
\* it unchanged.
Thm_C21_NoAtSignAndIdempotent ==
    text_call.fn = "strip_discord_mentions" =>
        /\ \A i \in 1..Len(text_call.result) : text_call.result[i] # "@"
        /\ text_call.again = text_call.result

\* a mention inside the pieces of another one: removing the inner mention
\* leaves a mention, which loses its '@' to the last replace
Wit_C21_NestedMentionStripped ==
    /\ text_call.fn = "strip_discord_mentions"
    /\ text_call.text = <<"<", "@", "<", "@", "1", ">", "1", ">">>
    /\ text_call.result = <<"<", "1", ">">>

\* text[i..j] is a custom-emoji token: <:name:id> or <a:name:id>
IsEmojiToken(text, i, j) ==
    \E c1 \in i..j, c2 \in i..j :
        /\ text[i] = "<" /\ text[j] = ">"
        /\ c1 < c2
        /\ text[c1] = ":" /\ text[c2] = ":"
        /\ c1 = i + 1 \/ (c1 = i + 2 /\ text[i + 1] = "a")
        /\ c2 > c1 + 1 /\ j > c2 + 1
        /\ \A k \in (c1 + 1)..(c2 - 1) :
               text[k] \in AsciiLetters \cup Range(DigitChar) \cup {"_", "~"}
        /\ \A k \in (c2 + 1)..(j - 1) : text[k] \in Range(DigitChar)

\* C30: for every text and every allowed-token list, the result of
\* enforce_allowed_custom_emojis contains no custom-emoji token that is not in
\* the allowed list.
Cex_C30_OnlyAllowedEmojiTokens ==
    text_call.fn = "enforce_allowed_custom_emojis" =>
        \A i \in 1..Len(text_call.result), j \in 1..Len(text_call.result) :
            (i < j /\ IsEmojiToken(text_call.result, i, j)) =>
                SubSeq(text_call.result, i, j) \in text_call.allowed

\* ------------------------------------------------------------------------
\* Properties of the notification of the newly blocked members (checked under
\* SpecNotify)
\* ------------------------------------------------------------------------

\* C27: the notification that mentions the newly blocked members is sent at
\* most once per run, only when at least one member was newly blocked, and its
\* text is never longer than 2000 characters.
Thm_C27_OneNotificationWithinLimit ==
    /\ Len(notify_sends) <= 1
    /\ \A i \in 1..Len(notify_sends) :
           /\ notify_ids # <<>>
           /\ Len(notify_sends[i].text) <= MessageLimit

\* a notification whose full text would be too long was sent, clipped
Wit_C27_ClippedNotificationSent ==
    /\ Len(notify_sends) = 1
    /\ Len(full_message(MentionsOf(notify_ids))) > MessageLimit
    /\ Len(notify_sends[1].text) <= MessageLimit
    /\ Len(notify_sends[1].text) > MessageLimit - ClipReserve

\* the positions of text where a mention begins
MentionStarts(text) ==
    { i \in 1..(Len(text) - 1) : text[i] = "<" /\ text[i + 1] = "@" }

\* the members of ids whose complete mention is in text
MentionedIn(text, ids) ==
    { k \in 1..Len(ids) :
          \E i \in MentionStarts(text) :
              /\ i + Len(ids[k]) + 2 <= Len(text)
              /\ SubSeq(text, i, i + Len(ids[k]) + 2) = mention(ids[k]) }

\* text ends with suffix
EndsWith(text, suffix) ==
    /\ Len(text) >= Len(suffix)
    /\ SubSeq(text, Len(text) - Len(suffix) + 1, Len(text)) = suffix

\* C28: when the notification is clipped, every mention in the sent text is a
\* complete mention of a newly blocked member, and the N of the appended
\* "(+N more)" is the number of newly blocked members whose complete mention
\* is not in the sent text.
Cex_C28_ClippedTextCountsTheMissing ==
    \A n \in 1..Len(notify_sends) :
        Len(full_message(MentionsOf(notify_ids))) > MessageLimit =>
            LET text == notify_sends[n].text
                missing == Len(notify_ids) - Cardinality(MentionedIn(text, notify_ids))
            IN /\ \A i \in MentionStarts(text) :
                      \E k \in 1..Len(notify_ids) :
                          /\ i + Len(notify_ids[k]) + 2 <= Len(text)
                          /\ SubSeq(text, i, i + Len(notify_ids[k]) + 2)
                                 = mention(notify_ids[k])
               /\ EndsWith(text, <<"\n", "(", "+">> \o str_of_int(missing)
                                     \o <<" ", "m", "o", "r", "e", ")">>)

\* ------------------------------------------------------------------------
\* Properties of the channel announcement (checked under SpecAnnounce)
\* ------------------------------------------------------------------------

\* the announcement of the run failed: fetch_channel raised, or the last
\* channel.send raised
AnnouncementFailed ==
    \/ announce_fetch \in {"http_exception", "other_exception"}
    \/ /\ announce_sends # <<>>
       /\ pc \notin {"send_retry"}
       /\ announce_sends[Len(announce_sends)].outcome # "returned"

\* C25: a failure while posting the channel announcement (fetch_channel or
\* channel.send raising) does not prevent the DM phase of main.py: the run goes
\* on to load the delivery state, and it ends only after the state was loaded
\* once, every member the iteration handed out was attempted, and the state
\* was saved once.
Thm_C25_AnnouncementFailureKeepsDmPhase ==
    (announce_site = "main" /\ AnnouncementFailed) =>
        /\ pc \in {"load", "loop", "save", "notify", "closed"}
        /\ pc # "load" => n_loads = 1
        /\ pc = "closed" =>
             /\ load_result = "returned"
             /\ n_saves = 1
             /\ phase = "done"
             /\ \A m \in HumanIds : m \notin Range(fetch_rest) => attempts[m] # <<>>

\* both sends of the announcement raised, and the run completed with every
\* human member attempted and the state saved
Wit_C25_DmPhaseAfterBothSendsFailed ==
    /\ announce_site = "main"
    /\ Len(announce_sends) = 2
    /\ announce_sends[2].outcome = "other_exception"
    /\ pc = "closed" /\ exit_path = "completed"
    /\ n_loads = 1 /\ n_saves = 1
    /\ \A m \in HumanIds : attempts[m] # <<>>

\* C26: the announcement is delivered at most once per run: there is a second
\* send only when a sticker was resolved and the send with the sticker raised
\* HTTPException, that second send is without the sticker and is the last one,
\* and nothing is sent after a send that succeeded.
Thm_C26_AnnouncementDeliveredAtMostOnce ==
    /\ Len(announce_sends) <= 2
    /\ \A i \in 1..Len(announce_sends) :
           announce_sends[i].outcome = "returned" => i = Len(announce_sends)
    /\ \A i \in 1..Len(announce_sends) :
           announce_sends[i].stickers <=> (has_sticker /\ i = 1)
    /\ Len(announce_sends) = 2 => announce_sends[1].outcome = "http_exception"
    /\ (/\ announce_sends # <<>>
        /\ announce_sends[1] = [stickers |-> TRUE, outcome |-> "http_exception"]
        /\ pc # "send_retry") => Len(announce_sends) = 2

\* the send with the sticker raised HTTPException and the send without it
\* delivered the announcement
Wit_C26_ResentWithoutSticker ==
    /\ announce_sends = << [stickers |-> TRUE, outcome |-> "http_exception"],
                           [stickers |-> FALSE, outcome |-> "returned"] >>
    /\ pc = "closed"

\* ------------------------------------------------------------------------
\* Properties of fetch_special_days_for_ist_date (checked under SpecCalendar)
\* ------------------------------------------------------------------------

\* the number of days from 0001-01-01 to the first day of month m of year y
RECURSIVE DaysBefore(_, _)
DaysBefore(y, m) ==
    IF m = 1
    THEN (365 * (y - 1)) + ((y - 1) \div 4) - ((y - 1) \div 100) + ((y - 1) \div 400)
    ELSE DaysBefore(y, m - 1) + DaysInMonth(y, m - 1)

\* the minutes from 0001-01-01 00:00 UTC to the start of the event, for an
\* event with a well-formed start.dateTime
StartInstant(dt) ==
    ((DaysBefore(dt.date.year, dt.date.month) + (dt.date.day - 1)) * 1440)
        + dt.minute - (IF dt.tz.set THEN dt.tz.minutes ELSE 0)

\* the minutes from 0001-01-01 00:00 UTC to 00:00 IST of the day d
IstMidnight(d) == ((DaysBefore(d.year, d.month) + (d.day - 1)) * 1440) - 330

\* the event starts on the day d of the IST calendar
StartsOnIstDate(item, d) ==
    IF item.start.date.set /\ item.start.date.s # <<>>
    THEN item.start.date.s = ZeroPad(d.year, 4) \o <<"-">> \o ZeroPad(d.month, 2)
                                 \o <<"-">> \o ZeroPad(d.day, 2)
    ELSE /\ item.start.date_time.set
         /\ item.start.date_time.dt.valid
         /\ StartInstant(item.start.date_time.dt) >= IstMidnight(d)
         /\ StartInstant(item.start.date_time.dt) < IstMidnight(d) + 1440

\* the summary without the spaces around it
Trimmed(item) ==
    IF ~item.summary.set THEN <<>>
    ELSE LET text == item.summary.s
             inner == { i \in 1..Len(text) : text[i] # " " }
         IN IF inner = {} THEN <<>>
            ELSE SubSeq(text, CHOOSE i \in inner : \A j \in inner : i <= j,
                              CHOOSE i \in inner : \A j \in inner : i >= j)

\* two texts are equal when upper and lower case are not told apart
SameIgnoringCase(a, b) ==
    /\ Len(a) = Len(b)
    /\ \A i \in 1..Len(a) :
           \/ a[i] = b[i]
           \/ \E pair \in { <<"A", "a">>, <<"D", "d">>, <<"I", "i">>, <<"L", "l">>,
                            <<"Y", "y">> } : {a[i], b[i]} = {pair[1], pair[2]}

\* the positions of the items looked at whose summary belongs to the result:
\* the item starts on the date, its summary is not empty, and no earlier such
\* item has the same summary, ignoring case
FirstSeen ==
    { i \in 1..Len(offered) :
          /\ StartsOnIstDate(offered[i], cal_date)
          /\ Trimmed(offered[i]) # <<>>
          /\ \A j \in 1..(i - 1) :
                 StartsOnIstDate(offered[j], cal_date) =>
                     ~SameIgnoringCase(Trimmed(offered[j]), Trimmed(offered[i])) }

\* C22: fetch_special_days_for_ist_date returns the summaries of the events
\* that occur on the given IST date, in first-seen order, no two of them equal
\* when case is ignored and none of them empty; a calendar whose fetch fails is
\* skipped and the remaining calendars are still queried.
Thm_C22_SpecialDaysFirstSeenUnique ==
    /\ \A i \in 1..Len(cal_found) : cal_found[i] # <<>>
    /\ \A i \in 1..Len(cal_found), j \in 1..Len(cal_found) :
           i # j => ~SameIgnoringCase(cal_found[i], cal_found[j])
    /\ Len(cal_found) = Cardinality(FirstSeen)
    /\ \A i \in FirstSeen :
           cal_found[Cardinality({ j \in FirstSeen : j <= i })] = Trimmed(offered[i])
    /\ cal_pc = "returned" =>
           \A c \in 1..Len(queried) : queried[c] \in {"failed", "returned"}
    /\ \A c \in 1..Len(queried) :
           (queried[c] = "failed" /\ cal_pc # "raised") =>
               \/ cal_left = Len(queried) - c
               \/ queried[c + 1] # "pending"

\* the first calendar failed, the second gave two events of the date whose
\* summaries differ in case and outer spaces only: one summary is returned
Wit_C22_SecondCalendarAfterFailure ==
    /\ cal_pc = "returned"
    /\ queried = <<"failed", "returned">>
    /\ Len(offered) = 2
    /\ cal_found = << <<"D", "a", "y">> >>
    /\ offered[2].summary.s = <<" ", "D", "A", "Y", " ">>
    /\ StartsOnIstDate(offered[2], cal_date)
    /\ offered[2].start.date_time.set

====
